---- MODULE Spec2Model ----
(***************************************************************************)
(* Cache-aside repository engine with timeline (secondary index) support.  *)
(* Model of app/cache/base.py (Repository) and app/cache/redis_timeline.py *)
(* (RedisTimelineCache), instantiated with the hooks of MeliOrdersCache    *)
(* (app/cache/repositories/marketplace/meli/orders_cache.py).              *)
(*                                                                         *)
(* Keys are the ':'-split parts of the Redis key string.  Time is counted  *)
(* in ticks; a TTL is a number of ticks, -1 is "no expiry" (Redis TTL).    *)
(***************************************************************************)
EXTENDS Integers, Sequences, FiniteSets, TLC

VARIABLES store, sets, db, response_schema, last, calls, limiter, auth

vars == <<store, sets, db, response_schema, last, calls, limiter, auth>>

----------------------------------------------------------------------------
(* Bounds and universes *)

\* payload revisions and explicit ttl_seconds arguments drawn by the calls
MaxData == 2
MaxTTL == 2

\* length of the key lists passed to Repository.get_many
MaxBatch == 2

\* the clock of the rate limiter and of the sessions runs from 0 to MaxClock
MaxClock == 3
\* RateLimitConfig of every token: max_requests, time_window and wait_time of
\* every method
LimMaxRequests == 2
LimTimeWindow == 2
LimWaitTime == 2
\* Config.TOKEN_EXPIRATION (15 minutes) and Config.JWT_REFRESH_TOKEN_EXPIRES
\* (3 days), in ticks of the clock; the refresh tokens issued in a behaviour
SessionTTL == 1
RefreshTTL == 3
MaxTokens == 3

\* CacheConfig TTL of "orders": 2592000 s, counted in ticks of 1296000 s
DefaultTTL == 2

Ids == {"O1"}
Pins == {"U1", "U2"}

KA == <<"orders", "meli", "S1", "O1">>
KB == <<"orders", "meli", "S1", "O2">>
KI == <<"O1">>
KC == <<"orders", "meli", "S2", "O1">>
Keys == {KA, KB, KI, KC}
RepoKeys == {KA, KI}

TimelineOf(pin) == <<"user", pin, "orders", "timeline">>
SetKeys == {TimelineOf(p) : p \in Pins}

None == [kind |-> "none"]
Absent == [kind |-> "absent"]
NoSet == [members |-> {}, ttl |-> 0]

\* the empty dict of key -> value
NoValues == << >>

\* the owner recorded in an order row (user_pin column); "" when the row has none
UserPinOf(oid) == IF oid = "O1" THEN "U1" ELSE ""

Entities == [kind : {"model", "dict"}, oid : Ids, data : 1..MaxData]
Dicts == [kind : {"dict"}, oid : Ids, data : 1..MaxData]
Rows == [kind : {"model"}, oid : Ids, data : 1..MaxData]

\* explicit ttl_seconds arguments; 0 stands for ttl_seconds=None
TTLArgs == 0..MaxTTL

\* ttl_seconds of the timeline calls: not supplied, or the longest explicit TTL
TimelineTTLArgs == {0, MaxTTL}

----------------------------------------------------------------------------
(* Backend failures: a call draws a failure mode; the at-th Redis command  *)
(* of the call raises, and with sticky every later command raises too (an  *)
(* outage for the whole call when at = 1).                                 *)

NoFail == [at |-> 0, sticky |-> FALSE]
Outage == [at |-> 1, sticky |-> TRUE]
FailModes(n) == {NoFail, Outage} \cup [at : 1..n, sticky : {FALSE}]
Fails(fm, i) == fm.at # 0 /\ (i = fm.at \/ (fm.sticky /\ i > fm.at))

----------------------------------------------------------------------------
(* Serialization *)

\* response_schema.dump(entity): the JSON-compatible dict of an entity
Dump(e) == IF e = None THEN None ELSE [kind |-> "dict", oid |-> e.oid, data |-> e.data]

\* json.dumps(value): raises TypeError on an ORM object
JsonSerializable(v) == v.kind \in {"dict", "none"}
json_dumps(v) == [kind |-> "text", body |-> v]

\* json.loads(data): raises on a malformed payload
JsonWellFormed(t) == t.kind = "text"
json_loads(t) == t.body

\* a stored string that is not JSON
Garbage == [kind |-> "garbage", body |-> None]

----------------------------------------------------------------------------
(* Redis commands on a keyspace st: Keys -> Absent or [kind, text, ttl]    *)

Entry(text, ttl) == [kind |-> "entry", text |-> text, ttl |-> ttl]

redis_setex(st, key, ttl, text) == [st EXCEPT ![key] = Entry(text, ttl)]
redis_delete(st, key) == [st EXCEPT ![key] = Absent]
redis_exists(st, key) == st[key] # Absent

redis_sadd(ss, set_key, member) ==
    IF ss[set_key].members = {}
    THEN [ss EXCEPT ![set_key] = [members |-> {member}, ttl |-> -1]]
    ELSE [ss EXCEPT ![set_key].members = @ \cup {member}]

redis_srem(ss, set_key, member) ==
    IF ss[set_key].members \subseteq {member}
    THEN [ss EXCEPT ![set_key] = NoSet]
    ELSE [ss EXCEPT ![set_key].members = @ \ {member}]

redis_expire_set(ss, set_key, ttl) ==
    IF ss[set_key].members = {} THEN ss
    ELSE IF ttl <= 0 THEN [ss EXCEPT ![set_key] = NoSet]
    ELSE [ss EXCEPT ![set_key].ttl = ttl]

redis_smembers(ss, set_key) == ss[set_key].members

----------------------------------------------------------------------------
(* RedisTimelineCache: CacheStrategy operations.  failed = the Redis       *)
(* command of the call raises.  Every result carries raised = an exception *)
(* left the method.                                                        *)

\* get that hands out a payload json.loads cannot parse as it is stored
cache_get_unparsed(st, key, failed) ==
    IF failed THEN [ret |-> None, raised |-> FALSE]
    ELSE IF st[key] = Absent THEN [ret |-> None, raised |-> FALSE]
    ELSE IF ~JsonWellFormed(st[key].text) THEN [ret |-> st[key].text, raised |-> FALSE]
    ELSE [ret |-> json_loads(st[key].text), raised |-> FALSE]

cache_get(st, key, failed) ==
    IF failed THEN [ret |-> None, raised |-> FALSE]
    ELSE IF st[key] = Absent THEN [ret |-> None, raised |-> FALSE]
    ELSE IF ~JsonWellFormed(st[key].text) THEN [ret |-> None, raised |-> FALSE]
    ELSE [ret |-> json_loads(st[key].text), raised |-> FALSE]

cache_set(st, key, value, ttl_seconds, failed) ==
    LET ttl == IF ttl_seconds # 0 THEN ttl_seconds ELSE DefaultTTL
    IN  IF ~JsonSerializable(value) THEN [st |-> st, ret |-> FALSE, raised |-> FALSE]
        ELSE IF failed THEN [st |-> st, ret |-> FALSE, raised |-> FALSE]
        ELSE [st |-> redis_setex(st, key, ttl, json_dumps(value)), ret |-> TRUE, raised |-> FALSE]

\* delete that reports success whenever the command was served
cache_delete_unconditional(st, key, failed) ==
    IF failed THEN [st |-> st, ret |-> FALSE, raised |-> FALSE]
    ELSE [st |-> redis_delete(st, key), ret |-> TRUE, raised |-> FALSE]

cache_delete(st, key, failed) ==
    IF failed THEN [st |-> st, ret |-> FALSE, raised |-> FALSE]
    ELSE [st |-> redis_delete(st, key), ret |-> redis_exists(st, key), raised |-> FALSE]

----------------------------------------------------------------------------
(* Repository hooks (MeliOrdersCache) *)

\* parse_id_from_key: orders:{marketplace_type}:{shop}:{order_id} -> order_id
NoId == << >>
parse_id_from_key(key) ==
    IF Len(key) >= 4 /\ key[1] = "orders" THEN <<key[4]>> ELSE NoId

\* get_from_database(id): the row serialized through the schema, or None
get_from_database(d, id) ==
    IF Len(id) = 1 /\ id[1] \in Ids THEN Dump(d[id[1]]) ELSE None

\* save_to_database(entity): upsert the row, return the saved entity
save_to_database(d, entity) ==
    [db |-> [d EXCEPT ![entity.oid] = [kind |-> "model", oid |-> entity.oid, data |-> entity.data]],
     ret |-> entity]

\* Repository.add_reference_to_sets; commands 2i-1 (sadd) and 2i (expire) of
\* the i-th set are numbered from base+1
RECURSIVE add_refs(_, _, _, _, _, _, _)
add_refs(ss, value_key, set_keys, expire_ttl, fm, base, updated) ==
    IF set_keys = << >> THEN [sets |-> ss, ret |-> updated]
    ELSE IF Fails(fm, base + 1) THEN [sets |-> ss, ret |-> updated]
    ELSE LET s1 == redis_sadd(ss, Head(set_keys), value_key)
         IN  IF Fails(fm, base + 2) THEN [sets |-> s1, ret |-> updated]
             ELSE add_refs(redis_expire_set(s1, Head(set_keys), expire_ttl), value_key,
                           Tail(set_keys), expire_ttl, fm, base + 2, updated + 1)

add_reference_to_sets(ss, value_key, set_keys, ttl_seconds, fm, base) ==
    LET expire_ttl == IF ttl_seconds # 0 THEN ttl_seconds ELSE DefaultTTL * 2
    IN  add_refs(ss, value_key, set_keys, expire_ttl, fm, base, 0)

\* MeliOrdersCache.after_save_update_cache
after_save_update_cache(ss, id, saved_entity, fm, base) ==
    LET user_pin == UserPinOf(saved_entity.oid)
    IN  IF user_pin = "" THEN ss
        ELSE add_reference_to_sets(ss, id, <<TimelineOf(user_pin)>>, 0, fm, base).sets

----------------------------------------------------------------------------
(* Repository operations as functions of the state *)

\* Repository.get with the source consulted before the cache answer is used
RepoGet_lookup_on_hit(st, d, id, fm) ==
    LET cached == cache_get(st, id, Fails(fm, 1)).ret
        parsed_id == parse_id_from_key(id)
        lookup_id == IF parsed_id # NoId THEN parsed_id ELSE id
        entity == get_from_database(d, lookup_id)
    IN  IF cached = None
        THEN IF entity # None
             THEN [st |-> cache_set(st, id, entity, 0, Fails(fm, 2)).st, ret |-> entity, lookups |-> 1]
             ELSE [st |-> st, ret |-> None, lookups |-> 1]
        ELSE [st |-> st, ret |-> cached, lookups |-> 1]

\* Repository.get that caches the loaded entity under the parsed (canonical) id
RepoGet_canonical_key(st, d, id, fm) ==
    LET cached == cache_get(st, id, Fails(fm, 1)).ret
        parsed_id == parse_id_from_key(id)
        lookup_id == IF parsed_id # NoId THEN parsed_id ELSE id
        entity == get_from_database(d, lookup_id)
    IN  IF cached = None
        THEN IF entity # None
             THEN [st |-> cache_set(st, lookup_id, entity, 0, Fails(fm, 2)).st, ret |-> entity, lookups |-> 1]
             ELSE [st |-> st, ret |-> None, lookups |-> 1]
        ELSE [st |-> st, ret |-> cached, lookups |-> 0]

\* Repository.get that also caches the "not found" answer of the source
RepoGet_negative_cache(st, d, id, fm) ==
    LET cached == cache_get(st, id, Fails(fm, 1)).ret
        parsed_id == parse_id_from_key(id)
        lookup_id == IF parsed_id # NoId THEN parsed_id ELSE id
        entity == get_from_database(d, lookup_id)
    IN  IF cached = None
        THEN [st |-> cache_set(st, id, entity, 0, Fails(fm, 2)).st, ret |-> entity, lookups |-> 1]
        ELSE [st |-> st, ret |-> cached, lookups |-> 0]

\* Repository.get(id)
RepoGet(st, d, id, fm) ==
    LET cached == cache_get(st, id, Fails(fm, 1)).ret
        parsed_id == parse_id_from_key(id)
        lookup_id == IF parsed_id # NoId THEN parsed_id ELSE id
        entity == get_from_database(d, lookup_id)
    IN  IF cached = None
        THEN IF entity # None
             THEN [st |-> cache_set(st, id, entity, 0, Fails(fm, 2)).st, ret |-> entity, lookups |-> 1]
             ELSE [st |-> st, ret |-> None, lookups |-> 1]
        ELSE [st |-> st, ret |-> cached, lookups |-> 0]

\* what the hooks of the concrete repository do in a call of save: both
\* return, save_to_database raises (a ValueError for a missing required
\* field, re-raised after the rollback), or after_save_update_cache raises
HookModes == {"ok", "source_raises", "hook_raises"}

\* Repository.save that caches the entity as returned by the source, not its
\* serialized form
RepoSave_raw(st, ss, d, schema, id, entity, fm, hooks) ==
    LET saved == save_to_database(d, entity)
        cached_form == IF schema THEN Dump(saved.ret) ELSE saved.ret
        st1 == cache_set(st, id, saved.ret, 0, Fails(fm, 1)).st
    IN  IF hooks = "source_raises"
        THEN [st |-> st, sets |-> ss, db |-> d, ret |-> None, raised |-> TRUE]
        ELSE [st |-> st1,
              sets |-> IF hooks = "hook_raises" THEN ss
                       ELSE after_save_update_cache(ss, id, cached_form, fm, 1),
              db |-> saved.db, ret |-> cached_form, raised |-> FALSE]

\* Repository.save that writes the cache before it calls save_to_database
RepoSave_cache_first(st, ss, d, schema, id, entity, fm, hooks) ==
    LET saved == save_to_database(d, entity)
        cached_form == IF schema THEN Dump(saved.ret) ELSE saved.ret
        st1 == cache_set(st, id, cached_form, 0, Fails(fm, 1)).st
    IN  IF hooks = "source_raises"
        THEN [st |-> st1, sets |-> ss, db |-> d, ret |-> None, raised |-> TRUE]
        ELSE [st |-> st1,
              sets |-> IF hooks = "hook_raises" THEN ss
                       ELSE after_save_update_cache(ss, id, cached_form, fm, 1),
              db |-> saved.db, ret |-> cached_form, raised |-> FALSE]

\* Repository.save without the try/except around after_save_update_cache
RepoSave_hook_propagates(st, ss, d, schema, id, entity, fm, hooks) ==
    LET saved == save_to_database(d, entity)
        cached_form == IF schema THEN Dump(saved.ret) ELSE saved.ret
        st1 == cache_set(st, id, cached_form, 0, Fails(fm, 1)).st
    IN  IF hooks = "source_raises"
        THEN [st |-> st, sets |-> ss, db |-> d, ret |-> None, raised |-> TRUE]
        ELSE IF hooks = "hook_raises"
        THEN [st |-> st1, sets |-> ss, db |-> saved.db, ret |-> None, raised |-> TRUE]
        ELSE [st |-> st1, sets |-> after_save_update_cache(ss, id, cached_form, fm, 1),
              db |-> saved.db, ret |-> cached_form, raised |-> FALSE]

\* Repository.save(id, entity): save_to_database is called outside any try
\* block, before the cache write; after_save_update_cache inside try/except
\* Exception: pass
RepoSave(st, ss, d, schema, id, entity, fm, hooks) ==
    LET saved == save_to_database(d, entity)
        cached_form == IF schema THEN Dump(saved.ret) ELSE saved.ret
        st1 == cache_set(st, id, cached_form, 0, Fails(fm, 1)).st
    IN  IF hooks = "source_raises"
        THEN [st |-> st, sets |-> ss, db |-> d, ret |-> None, raised |-> TRUE]
        ELSE [st |-> st1,
              sets |-> IF hooks = "hook_raises" THEN ss
                       ELSE after_save_update_cache(ss, id, cached_form, fm, 1),
              db |-> saved.db, ret |-> cached_form, raised |-> FALSE]

\* Repository.invalidate(id)
RepoInvalidate(st, id, fm) == cache_delete(st, id, Fails(fm, 1))

----------------------------------------------------------------------------
(* RedisTimelineCache: keys and timeline (secondary index) operations *)

\* _format_key of the cache of entity_type; "" is an argument that was not
\* supplied
_format_key(entity_type, pin, entity_id, master_pin, marketplace_type, marketplace_shop_id) ==
    LET effective_pin == IF master_pin # "" THEN master_pin ELSE pin
    IN  IF entity_type = "accounts"
        THEN IF marketplace_type # "" /\ entity_id # ""
             THEN <<"account", marketplace_type, entity_id>>
             ELSE IF entity_id # ""
             THEN <<"account", entity_id>>
             ELSE IF marketplace_type # "" /\ marketplace_shop_id # ""
             THEN <<"user", effective_pin, "account", marketplace_type, marketplace_shop_id>>
             ELSE <<"user", effective_pin, "accounts">>
        ELSE IF marketplace_type # "" /\ marketplace_shop_id # "" /\ entity_id # ""
        THEN <<entity_type, marketplace_type, marketplace_shop_id, entity_id>>
        ELSE IF marketplace_type # "" /\ marketplace_shop_id # ""
        THEN <<entity_type, marketplace_type, marketplace_shop_id>>
        ELSE IF entity_id # ""
        THEN <<"user", effective_pin, entity_type, entity_id>>
        ELSE <<"user", effective_pin, entity_type>>

\* _format_user_timeline_key
_format_user_timeline_key(pin) == TimelineOf(pin)

\* the keys of a set in a fixed order of iteration
KeyOrder == <<KA, KB, KI, KC>>
SeqOf(S) == SelectSeq(KeyOrder, LAMBDA k : k \in S)
Range(q) == {q[i] : i \in 1..Len(q)}

\* get_many that hands out the stored text without parsing it
cache_get_many_unparsed(st, keys, failed) ==
    IF failed \/ \E k \in Range(keys) : st[k] # Absent /\ ~JsonWellFormed(st[k].text)
    THEN [ret |-> [k \in Range(keys) |-> None], raised |-> FALSE]
    ELSE [ret |-> [k \in Range(keys) |-> IF st[k] = Absent THEN None ELSE st[k].text],
          raised |-> FALSE]

\* get_many(keys): one pipeline; a payload that does not parse fails the batch
cache_get_many(st, keys, failed) ==
    IF failed \/ \E k \in Range(keys) : st[k] # Absent /\ ~JsonWellFormed(st[k].text)
    THEN [ret |-> [k \in Range(keys) |-> None], raised |-> FALSE]
    ELSE [ret |-> [k \in Range(keys) |->
                     IF st[k] = Absent THEN None ELSE json_loads(st[k].text)],
          raised |-> FALSE]

\* the fallback loaders a caller passes to get_values_by_set: none, a loader
\* that reads the source of record, or a loader that goes through
\* Repository.get (and so stores what it loads)
Loaders == {"none", "source", "repo_get"}

\* the failure mode seen by the Redis commands of a loader (sites 3 and 4 of
\* get_values_by_set are the loader's cache.get and cache.set)
LoaderFm(fm) ==
    IF fm.sticky THEN Outage
    ELSE IF fm.at \in {3, 4} THEN [at |-> fm.at - 2, sticky |-> FALSE]
    ELSE NoFail

\* loaders that raise: one that raises when the source has no row for the
\* reference (a strict query), one that raises when it has one (the row
\* cannot be serialized); where they do not raise they answer as "source"
RaisingLoaders == {"raise_unknown", "raise_known"}
loader_raises(loader, d, ref_key) ==
    LET row == get_from_database(d, IF parse_id_from_key(ref_key) # NoId
                                    THEN parse_id_from_key(ref_key) ELSE ref_key)
    IN  \/ loader = "raise_unknown" /\ row = None
        \/ loader = "raise_known" /\ row # None

fallback_loader(loader, st, d, ref_key, fm) ==
    IF loader = "repo_get" THEN RepoGet(st, d, ref_key, LoaderFm(fm))
    ELSE [st |-> st,
          ret |-> get_from_database(d, IF parse_id_from_key(ref_key) # NoId
                                       THEN parse_id_from_key(ref_key) ELSE ref_key),
          lookups |-> 1]

\* the loop body without the update of values_map
resolve_missing_no_update(acc, d, set_key, ref_key, loader, readd_on_success, fm) ==
    LET rec == fallback_loader(loader, acc.st, d, ref_key, fm)
    IN  [st |-> rec.st,
         sets |-> IF readd_on_success /\ rec.ret # None /\ ~Fails(fm, 5)
                  THEN redis_sadd(acc.sets, set_key, ref_key)
                  ELSE acc.sets,
         ret |-> acc.ret,
         lookups |-> acc.lookups + 1]

\* the loop body with a write-back of the recovered value under ref_key
resolve_missing_write_back(acc, d, set_key, ref_key, loader, readd_on_success, fm) ==
    LET rec == fallback_loader(loader, acc.st, d, ref_key, fm)
    IN  [st |-> IF rec.ret # None THEN cache_set(rec.st, ref_key, rec.ret, 0, FALSE).st ELSE rec.st,
         sets |-> IF readd_on_success /\ rec.ret # None /\ ~Fails(fm, 5)
                  THEN redis_sadd(acc.sets, set_key, ref_key)
                  ELSE acc.sets,
         ret |-> [acc.ret EXCEPT ![ref_key] = rec.ret],
         lookups |-> acc.lookups + 1]

\* the loop body with the reference dropped when the loader returns None
resolve_missing_prune(acc, d, set_key, ref_key, loader, readd_on_success, fm) ==
    LET rec == fallback_loader(loader, acc.st, d, ref_key, fm)
    IN  [st |-> rec.st,
         sets |-> IF rec.ret = None THEN redis_srem(acc.sets, set_key, ref_key)
                  ELSE IF readd_on_success /\ ~Fails(fm, 5)
                  THEN redis_sadd(acc.sets, set_key, ref_key)
                  ELSE acc.sets,
         ret |-> [acc.ret EXCEPT ![ref_key] = rec.ret],
         lookups |-> acc.lookups + 1]

\* get_values_by_set, the body of the loop over missing_keys; acc carries the
\* keyspace, the sets, the values_map and the number of loader calls
resolve_missing(acc, d, set_key, ref_key, loader, readd_on_success, fm) ==
    LET rec == fallback_loader(loader, acc.st, d, ref_key, fm)
    IN  IF loader_raises(loader, d, ref_key) THEN [acc EXCEPT !.lookups = @ + 1]
        ELSE
        [st |-> rec.st,
         sets |-> IF readd_on_success /\ rec.ret # None /\ ~Fails(fm, 5)
                  THEN redis_sadd(acc.sets, set_key, ref_key)
                  ELSE acc.sets,
         ret |-> [acc.ret EXCEPT ![ref_key] = rec.ret],
         lookups |-> acc.lookups + 1]

RECURSIVE resolve_all(_, _, _, _, _, _, _)
resolve_all(acc, d, set_key, missing_keys, loader, readd_on_success, fm) ==
    IF missing_keys = << >> THEN acc
    ELSE resolve_all(resolve_missing(acc, d, set_key, Head(missing_keys), loader, readd_on_success, fm),
                     d, set_key, Tail(missing_keys), loader, readd_on_success, fm)

\* get_values_by_set that drops the references found missing when no loader
\* is given
get_values_by_set_prune(st, ss, d, set_key, loader, readd_on_success, fm) ==
    LET member_keys == SeqOf(redis_smembers(ss, set_key))
        values_map == cache_get_many(st, member_keys, Fails(fm, 2)).ret
        missing_keys == SelectSeq(member_keys, LAMBDA k : values_map[k] = None)
        live == {k \in Range(member_keys) : values_map[k] # None}
        acc0 == [st |-> st, sets |-> ss, ret |-> values_map, lookups |-> 0]
        empty == [st |-> st, sets |-> ss, ret |-> << >>, lookups |-> 0]
    IN  IF Fails(fm, 1) THEN empty
        ELSE IF member_keys = << >> THEN empty
        ELSE IF loader = "none"
        THEN [acc0 EXCEPT !.sets = IF live = {} THEN [ss EXCEPT ![set_key] = NoSet]
                                   ELSE [ss EXCEPT ![set_key].members = live]]
        ELSE resolve_all(acc0, d, set_key, missing_keys, loader, readd_on_success, fm)

\* get_values_by_set whose loader calls are not guarded one by one: a loader
\* that raises ends the resolve in the outer except
get_values_by_set_abort(st, ss, d, set_key, loader, readd_on_success, fm) ==
    LET member_keys == SeqOf(redis_smembers(ss, set_key))
        values_map == cache_get_many(st, member_keys, Fails(fm, 2)).ret
        missing_keys == SelectSeq(member_keys, LAMBDA k : values_map[k] = None)
        acc0 == [st |-> st, sets |-> ss, ret |-> values_map, lookups |-> 0]
        empty == [st |-> st, sets |-> ss, ret |-> << >>, lookups |-> 0]
    IN  IF Fails(fm, 1) THEN empty
        ELSE IF member_keys = << >> THEN empty
        ELSE IF loader = "none" THEN acc0
        ELSE IF \E k \in Range(missing_keys) : loader_raises(loader, d, k) THEN empty
        ELSE resolve_all(acc0, d, set_key, missing_keys, loader, readd_on_success, fm)

\* RedisTimelineCache.get_values_by_set; Redis command sites: 1 smembers,
\* 2 the get_many pipeline, 3-4 the loader's own commands, 5 sadd
get_values_by_set(st, ss, d, set_key, loader, readd_on_success, fm) ==
    LET member_keys == SeqOf(redis_smembers(ss, set_key))
        values_map == cache_get_many(st, member_keys, Fails(fm, 2)).ret
        missing_keys == SelectSeq(member_keys, LAMBDA k : values_map[k] = None)
        acc0 == [st |-> st, sets |-> ss, ret |-> values_map, lookups |-> 0]
        empty == [st |-> st, sets |-> ss, ret |-> << >>, lookups |-> 0]
    IN  IF Fails(fm, 1) THEN empty
        ELSE IF member_keys = << >> THEN empty
        ELSE IF loader = "none" THEN acc0
        ELSE resolve_all(acc0, d, set_key, missing_keys, loader, readd_on_success, fm)

\* Repository.get_values_by_set that goes on to its own resolution after the
\* strategy's resolver has answered
RepoGetValuesBySet_rerun(st, ss, d, set_key, loader, readd_on_success, fm) ==
    LET first == get_values_by_set(st, ss, d, set_key, loader, readd_on_success, fm)
        second == get_values_by_set(first.st, first.sets, d, set_key, loader, readd_on_success, fm)
    IN  [second EXCEPT !.lookups = first.lookups + second.lookups]

\* Repository.get_values_by_set: delegates to the strategy's resolver
RepoGetValuesBySet(st, ss, d, set_key, loader, readd_on_success, fm) ==
    get_values_by_set(st, ss, d, set_key, loader, readd_on_success, fm)

\* RedisTimelineCache.get_user_timeline
get_user_timeline(ss, pin, master_pin, failed) ==
    LET timeline_pin == IF master_pin # "" THEN master_pin ELSE pin
    IN  IF failed THEN [ret |-> {}, raised |-> FALSE]
        ELSE [ret |-> redis_smembers(ss, _format_user_timeline_key(timeline_pin)), raised |-> FALSE]

\* set_user_entity with the timeline expiring with the entry (no factor 2)
set_user_entity_no_margin(st, ss, entity_type, pin, entity_id, value, master_pin, ttl_seconds, marketplace_type, marketplace_shop_id, fm) ==
    LET key == _format_key(entity_type, pin, entity_id, master_pin, marketplace_type, marketplace_shop_id)
        stored == cache_set(st, key, value, ttl_seconds, Fails(fm, 1))
        effective_pin == IF master_pin # "" THEN master_pin ELSE pin
        timeline_key == _format_user_timeline_key(effective_pin)
        ttl == IF ttl_seconds # 0 THEN ttl_seconds ELSE DefaultTTL
        s1 == redis_sadd(ss, timeline_key, key)
    IN  [st |-> stored.st,
         sets |-> IF Fails(fm, 2) THEN ss
                  ELSE IF Fails(fm, 3) THEN s1
                  ELSE redis_expire_set(s1, timeline_key, ttl),
         ret |-> stored.ret, raised |-> FALSE]

\* set_user_entity that indexes the entry in the timeline of the caller's own
\* pin, master or not
set_user_entity_own_timeline(st, ss, entity_type, pin, entity_id, value, master_pin, ttl_seconds, marketplace_type, marketplace_shop_id, fm) ==
    LET key == _format_key(entity_type, pin, entity_id, master_pin, marketplace_type, marketplace_shop_id)
        stored == cache_set(st, key, value, ttl_seconds, Fails(fm, 1))
        timeline_key == _format_user_timeline_key(pin)
        ttl == IF ttl_seconds # 0 THEN ttl_seconds ELSE DefaultTTL
        s1 == redis_sadd(ss, timeline_key, key)
    IN  [st |-> stored.st,
         sets |-> IF Fails(fm, 2) THEN ss
                  ELSE IF Fails(fm, 3) THEN s1
                  ELSE redis_expire_set(s1, timeline_key, ttl * 2),
         ret |-> stored.ret, raised |-> FALSE]

\* RedisTimelineCache.set_user_entity; Redis command sites: 1 setex, 2 sadd,
\* 3 expire
set_user_entity(st, ss, entity_type, pin, entity_id, value, master_pin, ttl_seconds, marketplace_type, marketplace_shop_id, fm) ==
    LET key == _format_key(entity_type, pin, entity_id, master_pin, marketplace_type, marketplace_shop_id)
        stored == cache_set(st, key, value, ttl_seconds, Fails(fm, 1))
        effective_pin == IF master_pin # "" THEN master_pin ELSE pin
        timeline_key == _format_user_timeline_key(effective_pin)
        ttl == IF ttl_seconds # 0 THEN ttl_seconds ELSE DefaultTTL
        s1 == redis_sadd(ss, timeline_key, key)
    IN  [st |-> stored.st,
         sets |-> IF Fails(fm, 2) THEN ss
                  ELSE IF Fails(fm, 3) THEN s1
                  ELSE redis_expire_set(s1, timeline_key, ttl * 2),
         ret |-> stored.ret, raised |-> FALSE]

----------------------------------------------------------------------------
(* Repository.get_many *)

\* the keys of a dict built from the list q, in insertion order
RECURSIVE Dedup(_)
Dedup(q) ==
    IF q = << >> THEN << >>
    ELSE LET r == Dedup(SubSeq(q, 1, Len(q) - 1))
             x == q[Len(q)]
         IN  IF x \in Range(r) THEN r ELSE Append(r, x)

\* the loop body with a cache.set under the parsed (canonical) id
hydrate_one_canonical_key(acc, d, key, fm) ==
    LET parsed_id == parse_id_from_key(key)
        lookup_id == IF parsed_id # NoId THEN parsed_id ELSE key
        entity == get_from_database(d, lookup_id)
    IN  IF acc.ret[key] # None THEN acc
        ELSE IF entity = None
        THEN [acc EXCEPT !.lookups = @ + 1]
        ELSE [st |-> cache_set(acc.st, lookup_id, entity, 0, Fails(fm, acc.site)).st,
              ret |-> [acc.ret EXCEPT ![key] = entity],
              lookups |-> acc.lookups + 1,
              site |-> acc.site + 1]

\* the loop body with the keys the source does not hold removed from the map
hydrate_one_drop_unresolved(acc, d, key, fm) ==
    LET parsed_id == parse_id_from_key(key)
        lookup_id == IF parsed_id # NoId THEN parsed_id ELSE key
        entity == get_from_database(d, lookup_id)
    IN  IF acc.ret[key] # None THEN acc
        ELSE IF entity = None
        THEN [acc EXCEPT !.lookups = @ + 1,
                         !.ret = [k \in DOMAIN acc.ret \ {key} |-> acc.ret[k]]]
        ELSE [st |-> cache_set(acc.st, key, entity, 0, Fails(fm, acc.site)).st,
              ret |-> [acc.ret EXCEPT ![key] = entity],
              lookups |-> acc.lookups + 1,
              site |-> acc.site + 1]

\* the loop body that falls back to the source only when the batch fetch was
\* served
hydrate_one_fail_closed(acc, d, key, fm) ==
    LET parsed_id == parse_id_from_key(key)
        lookup_id == IF parsed_id # NoId THEN parsed_id ELSE key
        entity == get_from_database(d, lookup_id)
    IN  IF acc.ret[key] # None \/ Fails(fm, 1) THEN acc
        ELSE IF entity = None
        THEN [acc EXCEPT !.lookups = @ + 1]
        ELSE [st |-> cache_set(acc.st, key, entity, 0, Fails(fm, acc.site)).st,
              ret |-> [acc.ret EXCEPT ![key] = entity],
              lookups |-> acc.lookups + 1,
              site |-> acc.site + 1]

\* Repository.get_many, the body of the loop over values.items(); acc carries
\* the keyspace, the values map, the number of source lookups and the number
\* (site) of the next Redis command
hydrate_one(acc, d, key, fm) ==
    LET parsed_id == parse_id_from_key(key)
        lookup_id == IF parsed_id # NoId THEN parsed_id ELSE key
        entity == get_from_database(d, lookup_id)
    IN  IF acc.ret[key] # None THEN acc
        ELSE IF entity = None
        THEN [acc EXCEPT !.lookups = @ + 1]
        ELSE [st |-> cache_set(acc.st, key, entity, 0, Fails(fm, acc.site)).st,
              ret |-> [acc.ret EXCEPT ![key] = entity],
              lookups |-> acc.lookups + 1,
              site |-> acc.site + 1]

RECURSIVE hydrate(_, _, _, _)
hydrate(acc, d, order, fm) ==
    IF order = << >> THEN acc
    ELSE hydrate(hydrate_one(acc, d, Head(order), fm), d, Tail(order), fm)

\* Repository.get_many that looks a missing key up once per occurrence in
\* the list
RepoGetMany_per_occurrence(st, d, keys, fm) ==
    IF keys = << >> THEN [st |-> st, ret |-> NoValues, lookups |-> 0, site |-> 1]
    ELSE LET values == cache_get_many(st, keys, Fails(fm, 1)).ret
             r == hydrate([st |-> st, ret |-> values, lookups |-> 0, site |-> 2], d, Dedup(keys), fm)
         IN  [r EXCEPT !.lookups = Cardinality({i \in 1..Len(keys) : values[keys[i]] = None})]

\* Repository.get_many(keys); Redis command sites: 1 the get_many pipeline,
\* 2.. the cache.set of each entity loaded from the source
RepoGetMany(st, d, keys, fm) ==
    IF keys = << >> THEN [st |-> st, ret |-> NoValues, lookups |-> 0, site |-> 1]
    ELSE hydrate([st |-> st, ret |-> cache_get_many(st, keys, Fails(fm, 1)).ret,
                  lookups |-> 0, site |-> 2], d, Dedup(keys), fm)

----------------------------------------------------------------------------
(* RedisTimelineCache: the other CacheStrategy operations.  A pipeline is   *)
(* sent by one execute(); fm numbers the Redis round trips of the call.     *)

redis_expire(st, key, ttl) ==
    IF st[key] = Absent THEN st ELSE [st EXCEPT ![key].ttl = ttl]

\* KEYS pattern, for a pattern of literal parts that may end in "*"
RECURSIVE Match(_, _)
Match(pattern, key) ==
    IF pattern = << >> THEN key = << >>
    ELSE IF Head(pattern) = "*" THEN TRUE
    ELSE key # << >> /\ Head(key) = Head(pattern) /\ Match(Tail(pattern), Tail(key))

redis_keys(st, pattern) == {k \in Keys : st[k] # Absent /\ Match(pattern, k)}

cache_exists(st, key, failed) ==
    IF failed THEN [ret |-> FALSE, raised |-> FALSE]
    ELSE [ret |-> redis_exists(st, key), raised |-> FALSE]

\* extend_ttl with the existence check made before the try block
cache_extend_ttl_unguarded(st, key, ttl_seconds, fm) ==
    LET ttl == IF ttl_seconds # 0 THEN ttl_seconds ELSE DefaultTTL
    IN  IF Fails(fm, 1) THEN [st |-> st, ret |-> FALSE, raised |-> TRUE]
        ELSE IF ~redis_exists(st, key) THEN [st |-> st, ret |-> FALSE, raised |-> FALSE]
        ELSE IF Fails(fm, 2) THEN [st |-> st, ret |-> FALSE, raised |-> FALSE]
        ELSE [st |-> redis_expire(st, key, ttl), ret |-> TRUE, raised |-> FALSE]

\* extend_ttl; Redis command sites: 1 exists, 2 expire
cache_extend_ttl(st, key, ttl_seconds, fm) ==
    LET ttl == IF ttl_seconds # 0 THEN ttl_seconds ELSE DefaultTTL
    IN  IF Fails(fm, 1) THEN [st |-> st, ret |-> FALSE, raised |-> FALSE]
        ELSE IF ~redis_exists(st, key) THEN [st |-> st, ret |-> FALSE, raised |-> FALSE]
        ELSE IF Fails(fm, 2) THEN [st |-> st, ret |-> FALSE, raised |-> FALSE]
        ELSE [st |-> redis_expire(st, key, ttl), ret |-> TRUE, raised |-> FALSE]

\* set_many(items): every value is serialized before the pipeline is sent
cache_set_many(st, items, ttl_seconds, failed) ==
    LET ttl == IF ttl_seconds # 0 THEN ttl_seconds ELSE DefaultTTL
    IN  IF \E k \in DOMAIN items : ~JsonSerializable(items[k])
        THEN [st |-> st, ret |-> FALSE, raised |-> FALSE]
        ELSE IF failed THEN [st |-> st, ret |-> FALSE, raised |-> FALSE]
        ELSE [st |-> [k \in Keys |-> IF k \in DOMAIN items
                                     THEN Entry(json_dumps(items[k]), ttl) ELSE st[k]],
              ret |-> TRUE, raised |-> FALSE]

\* extend_many_ttl(keys): the pipeline answers exists, expire for each key in
\* turn; the count pairs the first len(keys) answers with the next len(keys)
cache_extend_many_ttl(st, keys, ttl_seconds, failed) ==
    LET ttl == IF ttl_seconds # 0 THEN ttl_seconds ELSE DefaultTTL
        n == Len(keys)
        results == [j \in 1..(2 * n) |-> redis_exists(st, keys[(j + 1) \div 2])]
    IN  IF failed THEN [st |-> st, ret |-> 0, raised |-> FALSE]
        ELSE [st |-> [k \in Keys |-> IF k \in Range(keys) THEN redis_expire(st, k, ttl)[k] ELSE st[k]],
              ret |-> Cardinality({j \in 1..n : results[j] /\ results[n + j]}),
              raised |-> FALSE]

cache_delete_many(st, keys, failed) ==
    IF failed THEN [st |-> st, ret |-> 0, raised |-> FALSE]
    ELSE [st |-> [k \in Keys |-> IF k \in Range(keys) THEN Absent ELSE st[k]],
          ret |-> Cardinality({k \in Range(keys) : redis_exists(st, k)}),
          raised |-> FALSE]

\* get_by_pattern; Redis command sites: 1 keys, 2 the pipeline of gets
cache_get_by_pattern(st, pattern, fm) ==
    LET keys == redis_keys(st, pattern)
    IN  IF Fails(fm, 1) THEN [ret |-> NoValues, raised |-> FALSE]
        ELSE IF keys = {} THEN [ret |-> NoValues, raised |-> FALSE]
        ELSE IF Fails(fm, 2) \/ \E k \in keys : ~JsonWellFormed(st[k].text)
        THEN [ret |-> NoValues, raised |-> FALSE]
        ELSE [ret |-> [k \in keys |-> json_loads(st[k].text)], raised |-> FALSE]

\* delete_by_pattern; Redis command sites: 1 keys, 2 the pipeline of delete_many
cache_delete_by_pattern(st, pattern, fm) ==
    LET keys == redis_keys(st, pattern)
    IN  IF Fails(fm, 1) THEN [st |-> st, ret |-> 0, raised |-> FALSE]
        ELSE IF keys = {} THEN [st |-> st, ret |-> 0, raised |-> FALSE]
        ELSE cache_delete_many(st, SeqOf(keys), Fails(fm, 2))

----------------------------------------------------------------------------
(* RedisTimelineCache: the other timeline operations.  fm numbers the Redis *)
(* round trips of the call; "" is an argument that was not supplied or a    *)
(* component that is None.                                                  *)

\* _parse_key
_parse_key(key) ==
    LET parts == key
        n == Len(parts)
        P(i) == IF n >= i THEN parts[i] ELSE ""
    IN  IF parts[1] = "user"
        THEN IF n >= 4 /\ parts[3] = "account"
             THEN [pin |-> parts[2], entity_type |-> "accounts", marketplace_type |-> P(4),
                   marketplace_shop_id |-> P(5), entity_id |-> P(5)]
             ELSE [pin |-> parts[2], entity_type |-> parts[3], marketplace_type |-> "",
                   marketplace_shop_id |-> "", entity_id |-> P(4)]
        ELSE IF parts[1] = "account"
        THEN IF n >= 3
             THEN [pin |-> "", entity_type |-> "accounts", marketplace_type |-> parts[2],
                   marketplace_shop_id |-> parts[3], entity_id |-> parts[3]]
             ELSE [pin |-> "", entity_type |-> "accounts", marketplace_type |-> "",
                   marketplace_shop_id |-> parts[2], entity_id |-> parts[2]]
        ELSE IF n >= 4
        THEN [pin |-> "", entity_type |-> parts[1], marketplace_type |-> parts[2],
              marketplace_shop_id |-> parts[3], entity_id |-> parts[4]]
        ELSE IF n = 3
        THEN [pin |-> "", entity_type |-> parts[1], marketplace_type |-> parts[2],
              marketplace_shop_id |-> parts[3], entity_id |-> ""]
        ELSE [pin |-> "", entity_type |-> parts[1], marketplace_type |-> P(2),
              marketplace_shop_id |-> P(3), entity_id |-> P(4)]

\* clear that removes the timeline key first (site 2) and the member entries
\* after it (site 3)
clear_user_timeline_index_first(st, ss, pin, master_pin, fm) ==
    LET timeline_pin == IF master_pin # "" THEN master_pin ELSE pin
        timeline_key == _format_user_timeline_key(timeline_pin)
        keys == redis_smembers(ss, timeline_key)
        deleted == cache_delete_many(st, SeqOf(keys), Fails(fm, 3))
    IN  IF Fails(fm, 1) THEN [st |-> st, sets |-> ss, ret |-> 0, raised |-> FALSE]
        ELSE IF keys = {} THEN [st |-> st, sets |-> ss, ret |-> 0, raised |-> FALSE]
        ELSE IF Fails(fm, 2) THEN [st |-> st, sets |-> ss, ret |-> 0, raised |-> FALSE]
        ELSE [st |-> deleted.st, sets |-> [ss EXCEPT ![timeline_key] = NoSet],
              ret |-> deleted.ret, raised |-> FALSE]

\* clear_user_timeline; Redis command sites: 1 smembers, 2 the pipeline of
\* delete_many (which has its own try/except), 3 delete of the timeline key
clear_user_timeline(st, ss, pin, master_pin, fm) ==
    LET timeline_pin == IF master_pin # "" THEN master_pin ELSE pin
        timeline_key == _format_user_timeline_key(timeline_pin)
        keys == redis_smembers(ss, timeline_key)
        deleted == cache_delete_many(st, SeqOf(keys), Fails(fm, 2))
    IN  IF Fails(fm, 1) THEN [st |-> st, sets |-> ss, ret |-> 0, raised |-> FALSE]
        ELSE IF keys = {} THEN [st |-> st, sets |-> ss, ret |-> 0, raised |-> FALSE]
        ELSE IF Fails(fm, 3) THEN [st |-> deleted.st, sets |-> ss, ret |-> 0, raised |-> FALSE]
        ELSE [st |-> deleted.st, sets |-> [ss EXCEPT ![timeline_key] = NoSet],
              ret |-> deleted.ret, raised |-> FALSE]

\* delete_user_entity that removes the reference only when an entry was
\* deleted
delete_user_entity_if_removed(st, ss, entity_type, pin, entity_id, master_pin, marketplace_type, marketplace_shop_id, fm) ==
    LET key == _format_key(entity_type, pin, entity_id, master_pin, marketplace_type, marketplace_shop_id)
        removed == cache_delete(st, key, Fails(fm, 1))
        effective_pin == IF master_pin # "" THEN master_pin ELSE pin
        timeline_key == _format_user_timeline_key(effective_pin)
    IN  [st |-> removed.st,
         sets |-> IF Fails(fm, 2) \/ ~removed.ret THEN ss ELSE redis_srem(ss, timeline_key, key),
         ret |-> removed.ret, raised |-> FALSE]

\* delete_user_entity; Redis command sites: 1 delete, 2 srem
delete_user_entity(st, ss, entity_type, pin, entity_id, master_pin, marketplace_type, marketplace_shop_id, fm) ==
    LET key == _format_key(entity_type, pin, entity_id, master_pin, marketplace_type, marketplace_shop_id)
        removed == cache_delete(st, key, Fails(fm, 1))
        effective_pin == IF master_pin # "" THEN master_pin ELSE pin
        timeline_key == _format_user_timeline_key(effective_pin)
    IN  [st |-> removed.st,
         sets |-> IF Fails(fm, 2) THEN ss ELSE redis_srem(ss, timeline_key, key),
         ret |-> removed.ret, raised |-> FALSE]

\* extend_user_entity_ttl; Redis command sites: 1 exists, 2 expire (both in
\* extend_ttl), 3 expire of the timeline key
extend_user_entity_ttl(st, ss, entity_type, pin, entity_id, master_pin, ttl_seconds, marketplace_type, marketplace_shop_id, fm) ==
    LET key == _format_key(entity_type, pin, entity_id, master_pin, marketplace_type, marketplace_shop_id)
        extended == cache_extend_ttl(st, key, ttl_seconds, fm)
        effective_pin == IF master_pin # "" THEN master_pin ELSE pin
        ttl == IF ttl_seconds # 0 THEN ttl_seconds ELSE DefaultTTL
        timeline_key == _format_user_timeline_key(effective_pin)
    IN  [st |-> extended.st,
         sets |-> IF Fails(fm, 3) THEN ss ELSE redis_expire_set(ss, timeline_key, ttl * 2),
         ret |-> extended.ret, raised |-> FALSE]

\* get_all_user_entities; Redis command sites: 1 smembers, 2 the pipeline of
\* get_many.  The result maps entity ids (1-tuples, as parsed ids) to values;
\* members are visited in the order of KeyOrder, a later one overwrites
entity_ids(keys) == {<<_parse_key(k).entity_id>> : k \in {m \in keys : _parse_key(m).entity_id # ""}}
get_all_user_entities(st, ss, pin, master_pin, fm) ==
    LET timeline_pin == IF master_pin # "" THEN master_pin ELSE pin
        timeline_key == _format_user_timeline_key(timeline_pin)
        keys == redis_smembers(ss, timeline_key)
        keys_str == SeqOf(keys)
        values == cache_get_many(st, keys_str, Fails(fm, 2)).ret
        last_of(eid) == keys_str[CHOOSE i \in 1..Len(keys_str) :
                            /\ <<_parse_key(keys_str[i]).entity_id>> = eid
                            /\ \A j \in (i + 1)..Len(keys_str) :
                                  <<_parse_key(keys_str[j]).entity_id>> # eid]
    IN  IF Fails(fm, 1) THEN [ret |-> NoValues, raised |-> FALSE]
        ELSE IF keys = {} THEN [ret |-> NoValues, raised |-> FALSE]
        ELSE [ret |-> [eid \in entity_ids(keys) |-> values[last_of(eid)]], raised |-> FALSE]

\* extend_all_user_entities_ttl; Redis command sites: 1 smembers (not inside
\* any try block: its exception leaves the method), 2 the pipeline of
\* extend_many_ttl
extend_all_user_entities_ttl(st, ss, pin, master_pin, ttl_seconds, fm) ==
    LET timeline_pin == IF master_pin # "" THEN master_pin ELSE pin
        timeline_key == _format_user_timeline_key(timeline_pin)
        keys == redis_smembers(ss, timeline_key)
    IN  IF Fails(fm, 1) THEN [st |-> st, ret |-> 0, raised |-> TRUE]
        ELSE IF keys = {} THEN [st |-> st, ret |-> 0, raised |-> FALSE]
        ELSE cache_extend_many_ttl(st, SeqOf(keys), ttl_seconds, Fails(fm, 2))

----------------------------------------------------------------------------
(* RateLimiter: limiter holds the clock (now), and per token and method     *)
(* the list request_timestamps, is_limited, last_limit_hit (NoTime for     *)
(* None) and the wait_time of the token's configuration; block_on_limit of *)
(* the configuration; sent is the history of the times at which            *)
(* _make_request sent a request, kept for one time_window.                 *)

Tokens == {"T1", "T2"}
Methods == {"GET", "POST"}
LimKeys == Tokens \X Methods
NoTime == -1

NoLimiter ==
    [now |-> 0,
     request_timestamps |-> [k \in LimKeys |-> << >>],
     is_limited |-> [k \in LimKeys |-> FALSE],
     last_limit_hit |-> [k \in LimKeys |-> NoTime],
     wait_time |-> [k \in LimKeys |-> LimWaitTime],
     block_on_limit |-> TRUE,
     sent |-> [k \in LimKeys |-> << >>]]

MaxOf(a, b) == IF a >= b THEN a ELSE b

\* the timestamps of one time_window ending now
InWindow(timestamps, now) == SelectSeq(timestamps, LAMBDA ts : ts > now - LimTimeWindow)

\* _clean_old_requests: keeps the timestamps after now - time_window
_clean_old_requests(L, k) ==
    [L EXCEPT !.request_timestamps[k] = InWindow(@, L.now)]

\* _is_rate_limited
_is_rate_limited(L, k) ==
    IF L.is_limited[k] /\ L.last_limit_hit[k] # NoTime
    THEN IF L.now < L.last_limit_hit[k] + L.wait_time[k]
         THEN [lim |-> L, ret |-> TRUE]
         ELSE [lim |-> [L EXCEPT !.is_limited[k] = FALSE, !.request_timestamps[k] = << >>],
               ret |-> FALSE]
    ELSE LET cleaned == _clean_old_requests(L, k)
         IN  [lim |-> cleaned, ret |-> Len(cleaned.request_timestamps[k]) >= LimMaxRequests]

\* _calculate_wait_time
_calculate_wait_time(L, k) ==
    IF L.last_limit_hit[k] # NoTime
    THEN MaxOf(0, L.last_limit_hit[k] + L.wait_time[k] - L.now)
    ELSE IF L.request_timestamps[k] # << >>
    THEN MaxOf(0, L.request_timestamps[k][1] + LimTimeWindow - L.now)
    ELSE 0

\* check_and_wait: raised = RateLimitExceededError left the method; waited =
\* it slept
check_and_wait(L, k) ==
    LET limited == _is_rate_limited(L, k)
        wait_time == _calculate_wait_time(limited.lim, k)
        slept == [limited.lim EXCEPT !.now = @ + wait_time, !.is_limited[k] = FALSE,
                                     !.request_timestamps[k] = << >>]
    IN  IF limited.ret /\ ~L.block_on_limit
        THEN [lim |-> limited.lim, raised |-> TRUE, waited |-> FALSE]
        ELSE IF limited.ret
        THEN [lim |-> [slept EXCEPT !.request_timestamps[k] = Append(@, slept.now)],
              raised |-> FALSE, waited |-> TRUE]
        ELSE [lim |-> [limited.lim EXCEPT !.request_timestamps[k] = Append(@, L.now)],
              raised |-> FALSE, waited |-> FALSE]

\* register_request
register_request(L, k) ==
    LET added == [_clean_old_requests(L, k) EXCEPT !.request_timestamps[k] = Append(@, L.now)]
    IN  IF Len(added.request_timestamps[k]) >= LimMaxRequests
        THEN [added EXCEPT !.is_limited[k] = TRUE, !.last_limit_hit[k] = L.now]
        ELSE added

\* register_limit_hit; retry_after = 0 stands for None
register_limit_hit(L, k, retry_after) ==
    LET hit == [L EXCEPT !.is_limited[k] = TRUE, !.last_limit_hit[k] = L.now]
    IN  IF retry_after # 0 THEN [hit EXCEPT !.wait_time[k] = retry_after] ELSE hit

\* the sleep of _make_request after a 429 without Retry-After (60 s in the
\* code, the default wait_time)
NoRetryAfterSleep == LimWaitTime

\* RateLimitedAPIClient._make_request; responses are the answers of the API to
\* the request and to its retries, each <<status_code, retry_after>>; the
\* result tells whether the limiter delayed the first attempt (waited) or
\* rejected it (raised)
RECURSIVE _make_request(_, _, _)
_make_request(L, k, responses) ==
    LET checked == check_and_wait(L, k)
        sent == [checked.lim EXCEPT !.sent[k] = Append(InWindow(@, checked.lim.now), checked.lim.now)]
        registered == register_request(sent, k)
        response == Head(responses)
        hit == register_limit_hit(registered, k, response[2])
        slept == [hit EXCEPT !.now = @ + (IF response[2] # 0 THEN response[2] ELSE NoRetryAfterSleep)]
    IN  IF checked.raised THEN [lim |-> checked.lim, raised |-> TRUE, waited |-> FALSE, status |-> 429]
        ELSE IF response[1] = 429 /\ Tail(responses) # << >>
        THEN [_make_request(slept, k, Tail(responses)) EXCEPT !.waited = checked.waited]
        ELSE [lim |-> registered, raised |-> FALSE, waited |-> checked.waited, status |-> response[1]]

----------------------------------------------------------------------------
(* Refresh tokens: auth holds the clock (now), the Redis key of each user  *)
(* with the list of its sessions and the time at which the key expires,    *)
(* the blacklist keys auth:revoked:refresh:<jti> (the time at which each   *)
(* expires, 0 when absent) and the refresh tokens issued so far (their     *)
(* user and the time at which the JWT expires).  A jti is the number of    *)
(* the token; NoJti is the refresh_token_jti None of a session.            *)

AuthUsers == {"U1", "U2"}
Jtis == 1..MaxTokens
NoJti == 0
NoSessions == [list |-> << >>, until |-> 0]
NoToken == [user |-> "", exp |-> 0]

NoAuth ==
    [now |-> 0,
     sessions |-> [u \in AuthUsers |-> NoSessions],
     revoked |-> [j \in Jtis |-> 0],
     tokens |-> [j \in Jtis |-> NoToken]]

\* get_active_sessions_by_user_id: the list under the key user_id, [] when
\* the key is absent or has expired
get_active_sessions_by_user_id(A, user_id) ==
    IF A.now < A.sessions[user_id].until THEN A.sessions[user_id].list ELSE << >>

\* redis setex of the blacklist key of every jti in jtis
blacklist(A, jtis) ==
    [A EXCEPT !.revoked = [j \in Jtis |-> IF j \in jtis THEN A.now + RefreshTTL ELSE @[j]]]

\* create_refresh_token_for_user: issues the token jti and blacklists the
\* refresh_token_jti of every active session of the user
create_refresh_token_for_user(A, user_id, jti) ==
    LET sessions == get_active_sessions_by_user_id(A, user_id)
        old == {sessions[i].refresh_token_jti : i \in DOMAIN sessions} \ {NoJti}
    IN  blacklist([A EXCEPT !.tokens[jti] = [user |-> user_id, exp |-> A.now + RefreshTTL]], old)

\* revoke_refresh_token
revoke_refresh_token(A, jti) == blacklist(A, {jti})

\* is_refresh_token_valid: the jti has no blacklist key
is_refresh_token_valid(A, jti) == jti # NoJti /\ ~(A.now < A.revoked[jti])

\* save_session_data: replaces the sessions of the user by the new session
\* and sets the key with the expiry TOKEN_EXPIRATION
save_session_data(A, user_id, refresh_token_jti) ==
    LET existing == get_active_sessions_by_user_id(A, user_id)
        others == SelectSeq(existing, LAMBDA session : session.id # user_id)
        session_data == [id |-> user_id, refresh_token_jti |-> refresh_token_jti,
                         expires_at |-> A.now + SessionTTL]
    IN  [A EXCEPT !.sessions[user_id] = [list |-> Append(others, session_data),
                                         until |-> A.now + SessionTTL]]

\* the jti of the next token to issue (0 when MaxTokens were issued)
NextJti(A) ==
    IF \E j \in Jtis : A.tokens[j] = NoToken
    THEN CHOOSE j \in Jtis : A.tokens[j] = NoToken /\ \A i \in Jtis : i < j => A.tokens[i] # NoToken
    ELSE NoJti

\* a refresh token a client of the user can present: issued to the user, its
\* JWT not expired, and accepted by is_refresh_token_valid
ValidRefreshTokens(A, user_id) ==
    {j \in Jtis : /\ A.tokens[j].user = user_id
                  /\ A.now < A.tokens[j].exp
                  /\ is_refresh_token_valid(A, j)}

----------------------------------------------------------------------------
(* State machine: the Repository (cache-aside) operations *)

\* the record of the last call: its name, key, what it returned -- by type of
\* the return value: ret an entity or None, ok a bool, count an int, values a
\* dict of key -> value, members a set of keys --, the keys of a batch call
\* (keys as a set, batch as the list passed),
\* the number of
\* source-of-record lookups it made, whether a backend fault was injected,
\* (fault) the number of the Redis command at which it was injected, 0 for
\* none,
\* whether an exception left it, its further arguments (arg), and (prev) the
\* name and arguments of the call before it when that call was a fault-free
\* save, invalidate or resolve on the same key, NoPrev otherwise
NoArg == << >>
NoPrev == <<"-", NoArg>>
Result(op, key, ret, fm) ==
    [op |-> op, key |-> key, ret |-> ret, ok |-> FALSE, count |-> 0, values |-> NoValues,
     members |-> {}, keys |-> {}, batch |-> << >>, lookups |-> 0, failed |-> fm.at # 0,
     fault |-> fm.at,
     raised |-> FALSE, arg |-> NoArg,
     prev |-> IF last.key = key /\ ~last.failed /\ ~last.raised
                 /\ last.op \in {"save", "invalidate", "resolve"}
              THEN <<last.op, last.arg>> ELSE NoPrev]

\* the threads calling the repository concurrently, and where each one is in
\* its method op.  In get, pc is "reading" (called, before cache.get),
\* "missed" (cache.get answered None), "loaded" (the source answered an
\* entity); in save, "saving" (called, before save_to_database), "persisted"
\* (the source is written, before cache.set), "cached" (before the hook); in
\* clear_user_timeline, "clearing" (called, before smembers), "listed"
\* (smembers answered keys), "purged" (delete_many returned count);
\* "idle" is not in a call, "done" has returned ret after lookups source
\* lookups, "crashed" has died inside the call.  A caller that runs set,
\* add_reference and resolve in a row is "stored" after the set and
\* "referenced" after the add_reference; keys are then the members the
\* timeline had before the set
Callers == {"t1", "t2"}
Idle == [pc |-> "idle", op |-> "-", id |-> NoId, entity |-> None, ret |-> None, lookups |-> 0, keys |-> {}, count |-> 0]
NoCalls == [c \in Callers |-> Idle]

NoCall ==
    [op |-> "init", key |-> NoId, ret |-> None, ok |-> FALSE, count |-> 0, values |-> NoValues,
     members |-> {}, keys |-> {}, batch |-> << >>, lookups |-> 0, failed |-> FALSE, fault |-> 0,
     raised |-> FALSE,
     arg |-> NoArg,
     prev |-> NoPrev]

Init ==
    /\ calls = NoCalls /\ limiter = NoLimiter /\ auth = NoAuth
    /\ store = [k \in Keys |-> Absent]
    /\ sets = [s \in SetKeys |-> NoSet]
    /\ db = [i \in Ids |-> None]
    /\ response_schema \in BOOLEAN
    /\ last = NoCall

Get(id) ==
    /\ UNCHANGED calls
    /\ \E fm \in FailModes(2) :
           LET r == RepoGet(store, db, id, fm)
           IN  /\ store' = r.st
               /\ last' = [Result("get", id, r.ret, fm) EXCEPT !.lookups = r.lookups]
               /\ UNCHANGED <<sets, db, response_schema, limiter, auth>>

\* a repository with a schema saves ORM objects, which the schema serializes;
\* one without schema is a Repository[Dict]: its entities are dicts
Save(id, entity) ==
    /\ UNCHANGED calls
    /\ entity.kind = IF response_schema THEN "model" ELSE "dict"
    /\ \E fm \in FailModes(3) :
        LET r == RepoSave(store, sets, db, response_schema, id, entity, fm, "ok")
        IN  /\ store' = r.st
            /\ sets' = r.sets
            /\ db' = r.db
            /\ last' = Result("save", id, r.ret, fm)
            /\ UNCHANGED <<response_schema, limiter, auth>>

\* invalidate that also drops the reference to id from the owner's timeline
Invalidate_prune(id) ==
    /\ UNCHANGED calls
    /\ \E fm \in FailModes(1) :
           LET r == RepoInvalidate(store, id, fm)
           IN  /\ store' = r.st
               /\ sets' = redis_srem(sets, TimelineOf("U1"), id)
               /\ last' = [Result("invalidate", id, None, fm) EXCEPT !.ok = r.ret]
               /\ UNCHANGED <<db, response_schema, limiter, auth>>

Invalidate(id) ==
    /\ UNCHANGED calls
    /\ \E fm \in FailModes(1) :
           LET r == RepoInvalidate(store, id, fm)
           IN  /\ store' = r.st
               /\ last' = [Result("invalidate", id, None, fm) EXCEPT !.ok = r.ret]
               /\ UNCHANGED <<sets, db, response_schema, limiter, auth>>

\* one tick of time: every TTL counts down, what reaches 0 expires
Tick ==
    /\ UNCHANGED calls
    /\ store' = [k \in Keys |->
                    IF store[k] = Absent THEN Absent
                    ELSE IF store[k].ttl = 1 THEN Absent
                    ELSE [store[k] EXCEPT !.ttl = @ - 1]]
    /\ sets' = [s \in SetKeys |->
                    IF sets[s].ttl = 1 THEN NoSet
                    ELSE IF sets[s].ttl > 1 THEN [sets[s] EXCEPT !.ttl = @ - 1]
                    ELSE sets[s]]
    /\ last' = Result("tick", NoId, None, NoFail)
    /\ UNCHANGED <<db, response_schema, limiter, auth>>

Next ==
    \/ \E id \in RepoKeys : Get(id)
    \/ \E id \in RepoKeys, e \in Entities : Save(id, e)
    \/ \E id \in RepoKeys : Invalidate(id)
    \/ Tick

Spec == Init /\ [][Next]_vars

----------------------------------------------------------------------------
(* State machine: the Repository operations with batches and with hooks     *)
(* that may raise (specification SpecRepo)                                  *)

\* the key lists passed to get_many: every list of at most MaxBatch keys,
\* repetitions included,
\* over the key of an order the source may hold and the key of one it never
\* holds
BatchKeys == {KA, KB}
Batches == UNION {[1..n -> BatchKeys] : n \in 0..MaxBatch}

\* the backend serves every command of a call, or none
Availability == {NoFail, Outage}

\* the repository of orders: it has a response schema, and save is called with
\* the formatted key orders:{marketplace_type}:{shop}:{order_id}
InitRepo ==
    /\ calls = NoCalls /\ limiter = NoLimiter /\ auth = NoAuth
    /\ store = [k \in Keys |-> Absent]
    /\ sets = [s \in SetKeys |-> NoSet]
    /\ db = [i \in Ids |-> None]
    /\ response_schema = TRUE
    /\ last = NoCall

SaveKeys == {KA}

GetMany(keys) ==
    /\ UNCHANGED calls
    /\ \E fm \in Availability :
           LET r == RepoGetMany(store, db, keys, fm)
           IN  /\ store' = r.st
               /\ last' = [Result("get_many", NoId, None, fm)
                               EXCEPT !.values = r.ret, !.batch = keys, !.keys = Range(keys),
                                      !.lookups = r.lookups]
               /\ UNCHANGED <<sets, db, response_schema, limiter, auth>>

\* save with hooks that return or raise
SaveWithHooks(id, entity) ==
    /\ UNCHANGED calls
    /\ entity.kind = IF response_schema THEN "model" ELSE "dict"
    /\ \E fm \in Availability, hooks \in HookModes :
        LET r == RepoSave(store, sets, db, response_schema, id, entity, fm, hooks)
        IN  /\ store' = r.st
            /\ sets' = r.sets
            /\ db' = r.db
            /\ last' = [Result("save", id, r.ret, fm) EXCEPT !.raised = r.raised, !.arg = <<hooks>>]
            /\ UNCHANGED <<response_schema, limiter, auth>>

NextRepo ==
    \/ \E id \in RepoKeys : Get(id)
    \/ \E keys \in Batches : GetMany(keys)
    \/ \E id \in SaveKeys, e \in Entities : SaveWithHooks(id, e)
    \/ \E id \in RepoKeys : Invalidate(id)
    \/ Tick

SpecRepo == InitRepo /\ [][NextRepo]_vars

----------------------------------------------------------------------------
(* State machine: the timeline index of one owner (specification SpecIndex). *)
(* The source of record holds order O1 and never O2; the calls are served   *)
(* by the backend without faults.                                           *)

IdxKeys == {KA, KB}
Owner == "U1"

InitIndex ==
    /\ calls = NoCalls /\ limiter = NoLimiter /\ auth = NoAuth
    /\ store = [k \in Keys |-> Absent]
    /\ sets = [s \in SetKeys |-> NoSet]
    /\ db = [i \in Ids |-> [kind |-> "model", oid |-> i, data |-> 1]]
    /\ response_schema = TRUE
    /\ last = NoCall

SetUserEntity(entity_id, value, ttl_seconds) ==
    /\ UNCHANGED calls
    /\ LET r == set_user_entity(store, sets, "orders", Owner, entity_id, value, "", ttl_seconds,
                                "meli", "S1", NoFail)
       IN  /\ store' = r.st
           /\ sets' = r.sets
           /\ last' = [Result("set_user_entity", _format_key("orders", Owner, entity_id, "", "meli", "S1"),
                              None, NoFail) EXCEPT !.ok = r.ret, !.arg = <<ttl_seconds>>]
           /\ UNCHANGED <<db, response_schema, limiter, auth>>

AddReference(value_key, ttl_seconds) ==
    /\ UNCHANGED calls
    /\ LET r == add_reference_to_sets(sets, value_key, <<TimelineOf(Owner)>>, ttl_seconds, NoFail, 0)
       IN  /\ sets' = r.sets
           /\ last' = [Result("add_reference", value_key, None, NoFail)
                           EXCEPT !.count = r.ret, !.arg = <<ttl_seconds>>]
           /\ UNCHANGED <<store, db, response_schema, limiter, auth>>

Resolve(loader, readd_on_success) ==
    /\ UNCHANGED calls
    /\ LET r == RepoGetValuesBySet(store, sets, db, TimelineOf(Owner), loader, readd_on_success, NoFail)
       IN  /\ store' = r.st
           /\ sets' = r.sets
           /\ last' = [Result("resolve", TimelineOf(Owner), None, NoFail)
                           EXCEPT !.values = r.ret, !.lookups = r.lookups,
                                  !.arg = <<loader, readd_on_success>>]
           /\ UNCHANGED <<db, response_schema, limiter, auth>>

Members ==
    /\ UNCHANGED calls
    /\ LET r == get_user_timeline(sets, Owner, "", FALSE)
       IN  /\ last' = [Result("members", TimelineOf(Owner), None, NoFail) EXCEPT !.members = r.ret]
           /\ UNCHANGED <<store, sets, db, response_schema, limiter, auth>>

NextIndex ==
    \/ \E e \in {"O1", "O2"}, v \in Dicts, t \in TTLArgs : SetUserEntity(e, v, t)
    \/ \E k \in IdxKeys, t \in TTLArgs : AddReference(k, t)
    \/ \E l \in Loaders, b \in BOOLEAN : Resolve(l, b)
    \/ Members
    \/ Tick

SpecIndex == InitIndex /\ [][NextIndex]_vars

----------------------------------------------------------------------------
(* Specification SpecRoundTrip: a caller that stores a payload under a     *)
(* member key, references the key from the owner's timeline and resolves   *)
(* the timeline, with no other call and no tick of the clock in between.   *)
(* Between two such runs the timeline is written by set_user_entity and    *)
(* add_reference and the clock ticks.                                      *)

NoTripUnderWay == calls = NoCalls

TripPopulate(entity_id, value, ttl_seconds) == NoTripUnderWay /\ SetUserEntity(entity_id, value, ttl_seconds)
TripReference(value_key, ttl_seconds) == NoTripUnderWay /\ AddReference(value_key, ttl_seconds)
TripTick == NoTripUnderWay /\ Tick

\* cache.set(key, value, ttl_seconds)
TripSet(c, key, value, ttl_seconds) ==
    /\ NoTripUnderWay
    /\ LET r == cache_set(store, key, value, ttl_seconds, FALSE)
       IN  /\ store' = r.st
           /\ last' = [Result("cache.set", key, None, NoFail) EXCEPT !.ok = r.ret]
    /\ calls' = [calls EXCEPT ![c] = [Idle EXCEPT !.pc = "stored", !.op = "round_trip", !.id = key,
                                                  !.entity = value,
                                                  !.keys = redis_smembers(sets, TimelineOf(Owner))]]
    /\ UNCHANGED <<sets, db, response_schema, limiter, auth>>

\* add_reference_to_sets(key, [timeline of the owner], ttl_seconds)
TripAddReference(c, ttl_seconds) ==
    /\ calls[c].pc = "stored"
    /\ LET r == add_reference_to_sets(sets, calls[c].id, <<TimelineOf(Owner)>>, ttl_seconds, NoFail, 0)
       IN  /\ sets' = r.sets
           /\ last' = [Result("add_reference", calls[c].id, None, NoFail) EXCEPT !.count = r.ret]
    /\ calls' = [calls EXCEPT ![c] = [@ EXCEPT !.pc = "referenced"]]
    /\ UNCHANGED <<store, db, response_schema, limiter, auth>>

\* get_values_by_set(timeline of the owner, loader, readd_on_success); the
\* record of the call keeps the key and payload of the set and the members
\* the timeline had before it
TripResolve(c, loader, readd_on_success) ==
    /\ calls[c].pc = "referenced"
    /\ LET r == RepoGetValuesBySet(store, sets, db, TimelineOf(Owner), loader, readd_on_success, NoFail)
       IN  /\ store' = r.st
           /\ sets' = r.sets
           /\ last' = [Result("round_trip", calls[c].id, calls[c].entity, NoFail)
                           EXCEPT !.values = r.ret, !.lookups = r.lookups, !.members = calls[c].keys]
    /\ calls' = NoCalls
    /\ UNCHANGED <<db, response_schema, limiter, auth>>

TripCallers == {"t1"}

NextRoundTrip ==
    \/ \E e \in {"O1", "O2"}, v \in Dicts, t \in TimelineTTLArgs : TripPopulate(e, v, t)
    \/ \E k \in IdxKeys, t \in TimelineTTLArgs : TripReference(k, t)
    \/ TripTick
    \/ \E c \in TripCallers, k \in IdxKeys, v \in Dicts, t \in TTLArgs : TripSet(c, k, v, t)
    \/ \E c \in TripCallers, t \in TimelineTTLArgs : TripAddReference(c, t)
    \/ \E c \in TripCallers, l \in Loaders, b \in BOOLEAN : TripResolve(c, l, b)

SpecRoundTrip == InitIndex /\ [][NextRoundTrip]_vars

----------------------------------------------------------------------------
(* Specification SpecKeys: _format_key and _parse_key of the caches the    *)
(* repositories construct, over components without ':'.                    *)

\* the entity types of three of the caches constructed in repositories/
EntityTypes == {"orders", "accounts", "user"}
KeyPins == {"U1"}
KeyMasters == {"", "U2"}
KeyEntityIds == {"", "O1", "S1"}
KeyMarketplaces == {"", "meli"}
KeyShops == {"", "S1", "S2"}

FormatKey(entity_type, pin, entity_id, master_pin, marketplace_type, marketplace_shop_id) ==
    /\ last' = [Result("format_key",
                       _format_key(entity_type, pin, entity_id, master_pin, marketplace_type, marketplace_shop_id),
                       None, NoFail)
                   EXCEPT !.arg = <<entity_type, pin, entity_id, master_pin, marketplace_type, marketplace_shop_id>>]
    /\ UNCHANGED <<store, sets, db, response_schema, limiter, auth, calls>>

\* _parse_key of the key just formatted
ParseKey ==
    /\ last.op = "format_key"
    /\ last' = [last EXCEPT !.op = "parse_key", !.ret = _parse_key(last.key)]
    /\ UNCHANGED <<store, sets, db, response_schema, limiter, auth, calls>>

NextKeys ==
    \/ \E e \in EntityTypes, p \in KeyPins, i \in KeyEntityIds, m \in KeyMasters, t \in KeyMarketplaces, h \in KeyShops : FormatKey(e, p, i, m, t, h)
    \/ ParseKey

SpecKeys == InitRepo /\ [][NextKeys]_vars

----------------------------------------------------------------------------
(* Specification SpecCollab: the timeline operations called by a master,   *)
(* by a collaborator of that master, and by the collaborator's pin on its  *)
(* own account; every Redis command is served.                             *)

Master == "U1"
Collaborator == "U2"

\* <<pin, master_pin>> of the caller
CollabCallers == {<<Master, "">>, <<Collaborator, Master>>, <<Collaborator, "">>}
CollabIds == {"O1", "O2"}

CoSetUserEntity(caller, entity_id, value, ttl_seconds) ==
    /\ LET r == set_user_entity(store, sets, "orders", caller[1], entity_id, value, caller[2], ttl_seconds,
                                "meli", "S1", NoFail)
       IN  /\ store' = r.st
           /\ sets' = r.sets
           /\ last' = [Result("set_user_entity",
                              _format_key("orders", caller[1], entity_id, caller[2], "meli", "S1"), value, NoFail)
                          EXCEPT !.ok = r.ret, !.arg = <<caller[1], caller[2], entity_id, ttl_seconds>>]
    /\ UNCHANGED <<db, response_schema, limiter, auth, calls>>

CoGetUserTimeline(caller) ==
    /\ LET r == get_user_timeline(sets, caller[1], caller[2], FALSE)
       IN  last' = [Result("get_user_timeline", NoId, None, NoFail)
                       EXCEPT !.members = r.ret, !.arg = <<caller[1], caller[2], "", 0>>]
    /\ UNCHANGED <<store, sets, db, response_schema, limiter, auth, calls>>

CoGetAllUserEntities(caller) ==
    /\ LET r == get_all_user_entities(store, sets, caller[1], caller[2], NoFail)
       IN  last' = [Result("get_all_user_entities", NoId, None, NoFail)
                       EXCEPT !.values = r.ret, !.arg = <<caller[1], caller[2], "", 0>>]
    /\ UNCHANGED <<store, sets, db, response_schema, limiter, auth, calls>>

CoDeleteUserEntity(caller, entity_id) ==
    /\ LET r == delete_user_entity(store, sets, "orders", caller[1], entity_id, caller[2], "meli", "S1", NoFail)
       IN  /\ store' = r.st
           /\ sets' = r.sets
           /\ last' = [Result("delete_user_entity",
                              _format_key("orders", caller[1], entity_id, caller[2], "meli", "S1"), None, NoFail)
                          EXCEPT !.ok = r.ret, !.arg = <<caller[1], caller[2], entity_id, 0>>]
    /\ UNCHANGED <<db, response_schema, limiter, auth, calls>>

CoClearUserTimeline(caller) ==
    /\ LET r == clear_user_timeline(store, sets, caller[1], caller[2], NoFail)
       IN  /\ store' = r.st
           /\ sets' = r.sets
           /\ last' = [Result("clear_user_timeline", NoId, None, NoFail)
                          EXCEPT !.count = r.ret, !.arg = <<caller[1], caller[2], "", 0>>]
    /\ UNCHANGED <<db, response_schema, limiter, auth, calls>>

NextCollab ==
    \/ \E c \in CollabCallers, i \in CollabIds, v \in Dicts : CoSetUserEntity(c, i, v, 0)
    \/ \E c \in CollabCallers : CoGetUserTimeline(c)
    \/ \E c \in CollabCallers : CoGetAllUserEntities(c)
    \/ \E c \in CollabCallers, i \in CollabIds : CoDeleteUserEntity(c, i)
    \/ \E c \in CollabCallers : CoClearUserTimeline(c)
    \/ Tick

SpecCollab == InitRepo /\ [][NextCollab]_vars

----------------------------------------------------------------------------
(* Specification SpecLoader: get_values_by_set with fallback loaders that  *)
(* raise for some references; every Redis command is served.               *)

InitLoader ==
    /\ calls = NoCalls /\ limiter = NoLimiter /\ auth = NoAuth
    /\ store = [k \in Keys |-> Absent]
    /\ sets = [s \in SetKeys |-> NoSet]
    /\ db \in [Ids -> {None} \cup Rows]
    /\ response_schema = TRUE
    /\ last = NoCall

NextLoader ==
    \/ \E e \in {"O1", "O2"}, v \in Dicts : SetUserEntity(e, v, 0)
    \/ \E k \in IdxKeys : AddReference(k, 0)
    \/ \E l \in RaisingLoaders \cup {"source"}, b \in BOOLEAN : Resolve(l, b)
    \/ Tick

SpecLoader == InitLoader /\ [][NextLoader]_vars

----------------------------------------------------------------------------
(* Specification SpecEntities: one owner with orders in two shops, written *)
(* by set_user_entity and listed by get_all_user_entities; every Redis     *)
(* command is served.                                                      *)

\* <<marketplace_shop_id, entity_id>> of the orders written
ShopOrders == {<<"S1", "O1">>, <<"S1", "O2">>, <<"S2", "O1">>}

EnSetUserEntity(order, value) ==
    /\ LET r == set_user_entity(store, sets, "orders", Owner, order[2], value, "", 0, "meli", order[1], NoFail)
       IN  /\ store' = r.st
           /\ sets' = r.sets
           /\ last' = [Result("set_user_entity", _format_key("orders", Owner, order[2], "", "meli", order[1]),
                              value, NoFail) EXCEPT !.ok = r.ret]
    /\ UNCHANGED <<db, response_schema, limiter, auth, calls>>

NextEntities ==
    \/ \E o \in ShopOrders, v \in Dicts : EnSetUserEntity(o, v)
    \/ CoGetAllUserEntities(<<Owner, "">>)
    \/ Tick

SpecEntities == InitRepo /\ [][NextEntities]_vars

----------------------------------------------------------------------------
(* Specification SpecLimiter: clients of two tokens sending requests       *)
(* through RateLimitedAPIClient._make_request while time passes.  The API  *)
(* answers 200, or 429 with or without a Retry-After and then 200.         *)

RetryAfters == {0, 1}
ApiResponses == {<<<<200, 0>>>>} \cup {<<<<429, r>>, <<200, 0>>>> : r \in RetryAfters}

InitLimiter ==
    /\ store = [k \in Keys |-> Absent]
    /\ sets = [s \in SetKeys |-> NoSet]
    /\ db = [i \in Ids |-> None]
    /\ response_schema = TRUE
    /\ last = NoCall
    /\ calls = NoCalls
    /\ auth = NoAuth
    /\ limiter \in {[NoLimiter EXCEPT !.block_on_limit = b] : b \in BOOLEAN}

MakeRequest(token, method, responses) ==
    /\ LET r == _make_request(limiter, <<token, method>>, responses)
       IN  /\ r.lim.now <= MaxClock
           /\ limiter' = r.lim
           /\ last' = [Result("_make_request", <<token, method>>, None, NoFail)
                          EXCEPT !.ok = (r.status = 200), !.raised = r.raised, !.failed = r.waited,
                                 !.count = Len(limiter.sent[<<token, method>>]),
                                 !.arg = <<responses[1][1], responses[1][2]>>]
    /\ UNCHANGED <<store, sets, db, response_schema, calls, auth>>

\* one second passes
LimiterTick ==
    /\ limiter.now < MaxClock
    /\ limiter' = [limiter EXCEPT !.now = @ + 1,
                                  !.sent = [k \in LimKeys |-> InWindow(@[k], limiter.now + 1)]]
    /\ last' = Result("tick", NoId, None, NoFail)
    /\ UNCHANGED <<store, sets, db, response_schema, calls, auth>>

NextLimiter ==
    \/ \E t \in Tokens, m \in Methods, q \in ApiResponses : MakeRequest(t, m, q)
    \/ LimiterTick

SpecLimiter == InitLimiter /\ [][NextLimiter]_vars

\* the limiter delayed or rejected the first attempt of the request
LimiterHeldBack(l) == l.op = "_make_request" /\ (l.failed \/ l.raised)

\* the requests of token and method k sent within the time_window ending now
SentInWindow(L, k) == Len(InWindow(L.sent[k], L.now))

\* C37: for each token and method, the limiter delays or rejects a request
\* of _make_request only when max_requests requests of that token and method
\* were already sent within the current time_window, and never more than
\* max_requests requests are sent within one time_window.
C37_AdmitsMaxRequests ==
    [][/\ LimiterHeldBack(last') => SentInWindow(limiter, last'.key) >= LimMaxRequests
       /\ \A k \in LimKeys : SentInWindow(limiter', k) <= LimMaxRequests]_vars

\* the wait period of the last limit hit of token and method k is running
WaitPeriodRunning(L, k) ==
    L.last_limit_hit[k] # NoTime /\ L.now < L.last_limit_hit[k] + L.wait_time[k]

\* C38: the wait time supplied by the API replaces the configured wait_time
\* of the token and method only while the wait period of the limit hit runs
\* (afterwards limit hits wait for the configured wait_time again), and a
\* request never changes the wait time of another token or method.
C38_RetryAfterIsTemporary ==
    [][/\ \A k \in LimKeys : limiter'.wait_time[k] # LimWaitTime => WaitPeriodRunning(limiter', k)
       /\ \A k \in LimKeys : (last'.op = "_make_request" /\ k # last'.key)
                                => limiter'.wait_time[k] = limiter.wait_time[k]]_vars

----------------------------------------------------------------------------
(* Specification SpecAuth: users logging in (views.login), renewing their  *)
(* tokens with a valid refresh token (views.refresh_token) while time      *)
(* passes and the Redis keys and the tokens expire.                        *)

InitAuth ==
    /\ store = [k \in Keys |-> Absent]
    /\ sets = [s \in SetKeys |-> NoSet]
    /\ db = [i \in Ids |-> None]
    /\ response_schema = TRUE
    /\ last = NoCall
    /\ calls = NoCalls
    /\ limiter = NoLimiter
    /\ auth = NoAuth

\* views.login: create_refresh_token_for_user, then save_session_data with
\* the jti of the new token
Login(user_id) ==
    /\ NextJti(auth) # NoJti
    /\ LET jti == NextJti(auth)
           created == create_refresh_token_for_user(auth, user_id, jti)
       IN  /\ auth' = save_session_data(created, user_id, jti)
           /\ last' = [Result("login", NoId, None, NoFail) EXCEPT !.count = jti, !.arg = <<user_id>>]
    /\ UNCHANGED <<store, sets, db, response_schema, calls, limiter>>

\* views.refresh_token with the valid refresh token jti of the user:
\* controller.refresh_token calls create_refresh_token_for_user, then the
\* presented token is revoked and the session is saved without a
\* refresh_token_jti
Refresh(user_id, jti) ==
    /\ jti \in ValidRefreshTokens(auth, user_id)
    /\ NextJti(auth) # NoJti
    /\ LET new_jti == NextJti(auth)
           created == create_refresh_token_for_user(auth, user_id, new_jti)
           revoked == revoke_refresh_token(created, jti)
       IN  /\ auth' = save_session_data(revoked, user_id, NoJti)
           /\ last' = [Result("refresh", NoId, None, NoFail) EXCEPT !.count = new_jti, !.arg = <<user_id>>]
    /\ UNCHANGED <<store, sets, db, response_schema, calls, limiter>>

\* one tick of the clock passes
AuthTick ==
    /\ auth.now < MaxClock
    /\ auth' = [auth EXCEPT !.now = @ + 1]
    /\ last' = Result("tick", NoId, None, NoFail)
    /\ UNCHANGED <<store, sets, db, response_schema, calls, limiter>>

NextAuth ==
    \/ \E u \in AuthUsers : Login(u)
    \/ \E u \in AuthUsers, j \in Jtis : Refresh(u, j)
    \/ AuthTick

SpecAuth == InitAuth /\ [][NextAuth]_vars

\* C39: at any time at most one refresh token of a user is valid: every
\* refresh token issued to the user before the last call of
\* create_refresh_token_for_user is blacklisted, so is_refresh_token_valid
\* is false for it, whatever the age of the user's stored sessions.
C39_SingleValidRefreshToken ==
    \A u \in AuthUsers : Cardinality(ValidRefreshTokens(auth, u)) <= 1

----------------------------------------------------------------------------
(* Specification SpecBulk: the bulk helpers of Repository,                 *)
(* add_reference_to_sets over lists of timelines and get_values_by_set,    *)
(* each with a backend that may fail.                                      *)

\* the lists of distinct timelines passed to add_reference_to_sets
SetLists == {q \in UNION {[1..n -> SetKeys] : n \in 0..2} : \A i, j \in 1..Len(q) : q[i] = q[j] => i = j}

BulkAddReference(value_key, set_keys, ttl_seconds) ==
    /\ UNCHANGED calls
    /\ \E fm \in FailModes(4) :
          LET r == add_reference_to_sets(sets, value_key, set_keys, ttl_seconds, fm, 0)
          IN  /\ sets' = r.sets
              /\ last' = [Result("add_reference_to_sets", value_key, None, fm)
                              EXCEPT !.count = r.ret, !.batch = set_keys, !.arg = <<ttl_seconds>>]
    /\ UNCHANGED <<store, db, response_schema, limiter, auth>>

BulkGetValuesBySet(set_key, loader, readd_on_success) ==
    /\ UNCHANGED calls
    /\ \E fm \in FailModes(5) :
          LET r == RepoGetValuesBySet(store, sets, db, set_key, loader, readd_on_success, fm)
          IN  /\ store' = r.st
              /\ sets' = r.sets
              /\ last' = [Result("get_values_by_set", set_key, None, fm)
                              EXCEPT !.values = r.ret, !.lookups = r.lookups,
                                     !.arg = <<loader, readd_on_success>>]
    /\ UNCHANGED <<db, response_schema, limiter, auth>>

NextBulk ==
    \/ \E k \in IdxKeys, q \in SetLists : BulkAddReference(k, q, 0)
    \/ \E s \in SetKeys, l \in Loaders, b \in BOOLEAN : BulkGetValuesBySet(s, l, b)

SpecBulk == InitIndex /\ [][NextBulk]_vars

----------------------------------------------------------------------------
(* State machine: the CacheStrategy operations called directly, each with   *)
(* a backend that may fail (specification SpecStore).                       *)

StoreKeys == {KA, KB}
Patterns == {<<"orders", "*">>, <<"orders", "meli", "S1", "O1">>, <<"user", "*">>}

InitStore ==
    /\ calls = NoCalls /\ limiter = NoLimiter /\ auth = NoAuth
    /\ store = [k \in Keys |-> Absent]
    /\ sets = [s \in SetKeys |-> NoSet]
    /\ db = [i \in Ids |-> None]
    /\ response_schema = TRUE
    /\ last = NoCall

CacheGet(key) ==
    /\ UNCHANGED calls
    /\ \E fm \in FailModes(1) :
           LET r == cache_get(store, key, Fails(fm, 1))
           IN  /\ last' = [Result("cache.get", key, r.ret, fm) EXCEPT !.raised = r.raised]
               /\ UNCHANGED <<store, sets, db, response_schema, limiter, auth>>

CacheSet(key, value, ttl_seconds) ==
    /\ UNCHANGED calls
    /\ \E fm \in FailModes(1) :
           LET r == cache_set(store, key, value, ttl_seconds, Fails(fm, 1))
           IN  /\ store' = r.st
               /\ last' = [Result("cache.set", key, None, fm) EXCEPT !.ok = r.ret, !.raised = r.raised]
               /\ UNCHANGED <<sets, db, response_schema, limiter, auth>>

CacheDelete(key) ==
    /\ UNCHANGED calls
    /\ \E fm \in FailModes(1) :
           LET r == cache_delete(store, key, Fails(fm, 1))
           IN  /\ store' = r.st
               /\ last' = [Result("cache.delete", key, None, fm) EXCEPT !.ok = r.ret, !.raised = r.raised]
               /\ UNCHANGED <<sets, db, response_schema, limiter, auth>>

CacheExists(key) ==
    /\ UNCHANGED calls
    /\ \E fm \in FailModes(1) :
           LET r == cache_exists(store, key, Fails(fm, 1))
           IN  /\ last' = [Result("cache.exists", key, None, fm) EXCEPT !.ok = r.ret, !.raised = r.raised]
               /\ UNCHANGED <<store, sets, db, response_schema, limiter, auth>>

CacheExtendTtl(key, ttl_seconds) ==
    /\ UNCHANGED calls
    /\ \E fm \in FailModes(2) :
           LET r == cache_extend_ttl(store, key, ttl_seconds, fm)
           IN  /\ store' = r.st
               /\ last' = [Result("cache.extend_ttl", key, None, fm)
                               EXCEPT !.ok = r.ret, !.raised = r.raised]
               /\ UNCHANGED <<sets, db, response_schema, limiter, auth>>

CacheGetMany(S) ==
    /\ UNCHANGED calls
    /\ \E fm \in FailModes(1) :
           LET r == cache_get_many(store, SeqOf(S), Fails(fm, 1))
           IN  /\ last' = [Result("cache.get_many", NoId, None, fm)
                               EXCEPT !.values = r.ret, !.keys = S, !.raised = r.raised]
               /\ UNCHANGED <<store, sets, db, response_schema, limiter, auth>>

CacheSetMany(S, value, ttl_seconds) ==
    /\ UNCHANGED calls
    /\ \E fm \in FailModes(1) :
           LET r == cache_set_many(store, [k \in S |-> value], ttl_seconds, Fails(fm, 1))
           IN  /\ store' = r.st
               /\ last' = [Result("cache.set_many", NoId, None, fm)
                               EXCEPT !.ok = r.ret, !.keys = S, !.raised = r.raised]
               /\ UNCHANGED <<sets, db, response_schema, limiter, auth>>

CacheExtendManyTtl(S, ttl_seconds) ==
    /\ UNCHANGED calls
    /\ \E fm \in FailModes(1) :
           LET r == cache_extend_many_ttl(store, SeqOf(S), ttl_seconds, Fails(fm, 1))
           IN  /\ store' = r.st
               /\ last' = [Result("cache.extend_many_ttl", NoId, None, fm)
                               EXCEPT !.count = r.ret, !.keys = S, !.raised = r.raised]
               /\ UNCHANGED <<sets, db, response_schema, limiter, auth>>

CacheDeleteMany(S) ==
    /\ UNCHANGED calls
    /\ \E fm \in FailModes(1) :
           LET r == cache_delete_many(store, SeqOf(S), Fails(fm, 1))
           IN  /\ store' = r.st
               /\ last' = [Result("cache.delete_many", NoId, None, fm)
                               EXCEPT !.count = r.ret, !.keys = S, !.raised = r.raised]
               /\ UNCHANGED <<sets, db, response_schema, limiter, auth>>

CacheGetByPattern(pattern) ==
    /\ UNCHANGED calls
    /\ \E fm \in FailModes(2) :
           LET r == cache_get_by_pattern(store, pattern, fm)
           IN  /\ last' = [Result("cache.get_by_pattern", pattern, None, fm)
                               EXCEPT !.values = r.ret, !.raised = r.raised]
               /\ UNCHANGED <<store, sets, db, response_schema, limiter, auth>>

CacheDeleteByPattern(pattern) ==
    /\ UNCHANGED calls
    /\ \E fm \in FailModes(2) :
           LET r == cache_delete_by_pattern(store, pattern, fm)
           IN  /\ store' = r.st
               /\ last' = [Result("cache.delete_by_pattern", pattern, None, fm)
                               EXCEPT !.count = r.ret, !.raised = r.raised]
               /\ UNCHANGED <<sets, db, response_schema, limiter, auth>>

NextStore ==
    \/ \E k \in StoreKeys : CacheGet(k)
    \/ \E k \in StoreKeys, v \in Entities, t \in TTLArgs : CacheSet(k, v, t)
    \/ \E k \in StoreKeys : CacheDelete(k)
    \/ \E k \in StoreKeys : CacheExists(k)
    \/ \E k \in StoreKeys, t \in TTLArgs : CacheExtendTtl(k, t)
    \/ \E S \in SUBSET StoreKeys : CacheGetMany(S)
    \/ \E S \in SUBSET StoreKeys, v \in Entities, t \in TTLArgs : CacheSetMany(S, v, t)
    \/ \E S \in SUBSET StoreKeys, t \in TTLArgs : CacheExtendManyTtl(S, t)
    \/ \E S \in SUBSET StoreKeys : CacheDeleteMany(S)
    \/ \E p \in Patterns : CacheGetByPattern(p)
    \/ \E p \in Patterns : CacheDeleteByPattern(p)

SpecStore == InitStore /\ [][NextStore]_vars

----------------------------------------------------------------------------
(* Specification SpecInvalidate: entries that the save hook references in  *)
(* the owner's timeline, removed by Repository.invalidate and by the        *)
(* store's delete.                                                          *)

NextInvalidate ==
    \/ \E id \in RepoKeys : Get(id)
    \/ \E id \in SaveKeys, e \in Entities : Save(id, e)
    \/ \E id \in RepoKeys : Invalidate(id)
    \/ \E k \in RepoKeys : CacheDelete(k)
    \/ Tick

SpecInvalidate == InitIndex /\ [][NextInvalidate]_vars

----------------------------------------------------------------------------
(* Specification SpecMalformed: the Repository and RedisTimelineCache.get  *)
(* over a Redis in which some keys hold a string that is not JSON at the   *)
(* start (written by another client of the same Redis).                    *)

InitMalformed ==
    /\ calls = NoCalls /\ limiter = NoLimiter /\ auth = NoAuth
    /\ store \in [Keys -> {Absent, Entry(Garbage, MaxTTL)}]
    /\ store[KB] = Absent /\ store[KC] = Absent
    /\ sets = [s \in SetKeys |-> NoSet]
    /\ db = [i \in Ids |-> None]
    /\ response_schema \in BOOLEAN
    /\ last = NoCall

NextMalformed ==
    \/ \E key \in RepoKeys : CacheGet(key)
    \/ \E id \in RepoKeys : Get(id)
    \/ \E id \in SaveKeys, e \in Entities : Save(id, e)
    \/ \E S \in SUBSET RepoKeys : CacheGetMany(S)
    \/ Tick

SpecMalformed == InitMalformed /\ [][NextMalformed]_vars

----------------------------------------------------------------------------
(* State machine: the timeline operations of RedisTimelineCache called for  *)
(* one owner, each with a backend that may fail (specification              *)
(* SpecTimeline).  The source of record holds order O1.                     *)

InitTimeline ==
    /\ calls = NoCalls /\ limiter = NoLimiter /\ auth = NoAuth
    /\ store = [k \in Keys |-> Absent]
    /\ sets = [s \in SetKeys |-> NoSet]
    /\ db = [i \in Ids |-> [kind |-> "model", oid |-> i, data |-> 1]]
    /\ response_schema = TRUE
    /\ last = NoCall

\* the record of a timeline call
TimelineResult(op, key, fm, raised) ==
    [Result(op, key, None, fm) EXCEPT !.raised = raised]

TlGetUserTimeline ==
    /\ UNCHANGED calls
    /\ \E fm \in FailModes(1) :
           LET r == get_user_timeline(sets, Owner, "", Fails(fm, 1))
           IN  /\ last' = [TimelineResult("get_user_timeline", TimelineOf(Owner), fm, r.raised)
                               EXCEPT !.members = r.ret]
               /\ UNCHANGED <<store, sets, db, response_schema, limiter, auth>>

TlClearUserTimeline ==
    /\ UNCHANGED calls
    /\ \E fm \in FailModes(3) :
           LET r == clear_user_timeline(store, sets, Owner, "", fm)
           IN  /\ store' = r.st
               /\ sets' = r.sets
               /\ last' = [TimelineResult("clear_user_timeline", TimelineOf(Owner), fm, r.raised)
                               EXCEPT !.count = r.ret, !.members = redis_smembers(sets, TimelineOf(Owner))]
               /\ UNCHANGED <<db, response_schema, limiter, auth>>

TlSetUserEntity(entity_id, value, ttl_seconds) ==
    /\ UNCHANGED calls
    /\ \E fm \in FailModes(3) :
           LET r == set_user_entity(store, sets, "orders", Owner, entity_id, value, "", ttl_seconds,
                                    "meli", "S1", fm)
           IN  /\ store' = r.st
               /\ sets' = r.sets
               /\ last' = [TimelineResult("set_user_entity",
                                          _format_key("orders", Owner, entity_id, "", "meli", "S1"),
                                          fm, r.raised) EXCEPT !.ok = r.ret]
               /\ UNCHANGED <<db, response_schema, limiter, auth>>

TlDeleteUserEntity(entity_id) ==
    /\ UNCHANGED calls
    /\ \E fm \in FailModes(2) :
           LET r == delete_user_entity(store, sets, "orders", Owner, entity_id, "", "meli", "S1", fm)
           IN  /\ store' = r.st
               /\ sets' = r.sets
               /\ last' = [TimelineResult("delete_user_entity",
                                          _format_key("orders", Owner, entity_id, "", "meli", "S1"),
                                          fm, r.raised) EXCEPT !.ok = r.ret]
               /\ UNCHANGED <<db, response_schema, limiter, auth>>

TlExtendUserEntityTtl(entity_id, ttl_seconds) ==
    /\ UNCHANGED calls
    /\ \E fm \in FailModes(3) :
           LET r == extend_user_entity_ttl(store, sets, "orders", Owner, entity_id, "", ttl_seconds,
                                           "meli", "S1", fm)
           IN  /\ store' = r.st
               /\ sets' = r.sets
               /\ last' = [TimelineResult("extend_user_entity_ttl",
                                          _format_key("orders", Owner, entity_id, "", "meli", "S1"),
                                          fm, r.raised) EXCEPT !.ok = r.ret]
               /\ UNCHANGED <<db, response_schema, limiter, auth>>

TlGetAllUserEntities ==
    /\ UNCHANGED calls
    /\ \E fm \in FailModes(2) :
           LET r == get_all_user_entities(store, sets, Owner, "", fm)
           IN  /\ last' = [TimelineResult("get_all_user_entities", TimelineOf(Owner), fm, r.raised)
                               EXCEPT !.values = r.ret]
               /\ UNCHANGED <<store, sets, db, response_schema, limiter, auth>>

TlExtendAllUserEntitiesTtl(ttl_seconds) ==
    /\ UNCHANGED calls
    /\ \E fm \in FailModes(2) :
           LET r == extend_all_user_entities_ttl(store, sets, Owner, "", ttl_seconds, fm)
           IN  /\ store' = r.st
               /\ last' = [TimelineResult("extend_all_user_entities_ttl", TimelineOf(Owner), fm, r.raised)
                               EXCEPT !.count = r.ret]
               /\ UNCHANGED <<sets, db, response_schema, limiter, auth>>

TlGetValuesBySet(loader, readd_on_success) ==
    /\ UNCHANGED calls
    /\ \E fm \in FailModes(5) :
           LET r == get_values_by_set(store, sets, db, TimelineOf(Owner), loader, readd_on_success, fm)
           IN  /\ store' = r.st
               /\ sets' = r.sets
               /\ last' = [TimelineResult("get_values_by_set", TimelineOf(Owner), fm, FALSE)
                               EXCEPT !.values = r.ret, !.lookups = r.lookups]
               /\ UNCHANGED <<db, response_schema, limiter, auth>>

NextTimeline ==
    \/ TlGetUserTimeline
    \/ TlClearUserTimeline
    \/ \E e \in {"O1", "O2"}, v \in Dicts, t \in TimelineTTLArgs : TlSetUserEntity(e, v, t)
    \/ \E e \in {"O1", "O2"} : TlDeleteUserEntity(e)
    \/ \E e \in {"O1", "O2"}, t \in TimelineTTLArgs : TlExtendUserEntityTtl(e, t)
    \/ TlGetAllUserEntities
    \/ \E t \in TimelineTTLArgs : TlExtendAllUserEntitiesTtl(t)
    \/ \E l \in Loaders, b \in BOOLEAN : TlGetValuesBySet(l, b)

SpecTimeline == InitTimeline /\ [][NextTimeline]_vars

----------------------------------------------------------------------------
(* Specification SpecDelete: entities written and deleted through the      *)
(* owner's timeline while time passes, with a backend that may fail.       *)

NextDelete ==
    \/ \E e \in {"O1", "O2"}, v \in Dicts : TlSetUserEntity(e, v, 0)
    \/ \E e \in {"O1", "O2"} : TlDeleteUserEntity(e)
    \/ Tick

SpecDelete == InitTimeline /\ [][NextDelete]_vars

----------------------------------------------------------------------------
(* Specification SpecMembership: the life of timeline members.  Members    *)
(* are written by set_user_entity and by save (whose hook indexes), each   *)
(* with a backend that may fail; entries expire with the clock; the        *)
(* timeline is enumerated by MeliOrdersCache.get_account_orders.           *)

\* the members of a timeline that are orders of one account
matching_keys(ss, timeline_key, marketplace_type, account_id) ==
    {k \in redis_smembers(ss, timeline_key) :
        Len(k) >= 4 /\ k[1] = "orders" /\ k[2] = marketplace_type /\ k[3] = account_id}

\* enumeration that keeps the references it could not resolve
get_account_orders_keep_all(st, ss, d, pin, marketplace_type, account_id) ==
    LET timeline_key == _format_user_timeline_key(pin)
        keys == SeqOf(matching_keys(ss, timeline_key, marketplace_type, account_id))
        got == RepoGetMany(st, d, keys, NoFail)
    IN  [st |-> got.st,
         sets |-> redis_expire_set(ss, timeline_key, DefaultTTL * 2),
         ret |-> got.ret, lookups |-> got.lookups]

\* drop from the timeline every key of the list that values maps to None
RECURSIVE srem_unresolved(_, _, _, _)
srem_unresolved(ss, timeline_key, keys, values) ==
    IF keys = << >> THEN ss
    ELSE srem_unresolved(IF values[Head(keys)] = None
                         THEN redis_srem(ss, timeline_key, Head(keys)) ELSE ss,
                         timeline_key, Tail(keys), values)

\* get_account_orders up to the renewal of the timeline: read the members of
\* the account, get_many them, srem the unresolved ones, expire the timeline
get_account_orders(st, ss, d, pin, marketplace_type, account_id) ==
    LET timeline_key == _format_user_timeline_key(pin)
        keys == SeqOf(matching_keys(ss, timeline_key, marketplace_type, account_id))
        got == RepoGetMany(st, d, keys, NoFail)
        pruned == srem_unresolved(ss, timeline_key, keys, got.ret)
    IN  [st |-> got.st,
         sets |-> redis_expire_set(pruned, timeline_key, DefaultTTL * 2),
         ret |-> got.ret, lookups |-> got.lookups]

GetAccountOrders ==
    /\ UNCHANGED calls
    /\ LET r == get_account_orders(store, sets, db, Owner, "meli", "S1")
       IN  /\ store' = r.st
           /\ sets' = r.sets
           /\ last' = [Result("get_account_orders", TimelineOf(Owner), None, NoFail)
                           EXCEPT !.values = r.ret, !.lookups = r.lookups,
                                  !.members = redis_smembers(sets, TimelineOf(Owner))]
    /\ UNCHANGED <<db, response_schema, limiter, auth>>

NextMembership ==
    \/ \E e \in {"O1", "O2"}, v \in Dicts, t \in TimelineTTLArgs : TlSetUserEntity(e, v, t)
    \/ \E e \in Entities : Save(KA, e)
    \/ GetAccountOrders
    \/ Tick

SpecMembership == InitRepo /\ [][NextMembership]_vars

----------------------------------------------------------------------------
(* Properties of Repository.get / save (specification Spec) *)

GetStep(k) == last'.op = "get" /\ last'.key = k

\* the id Repository.get looks up in the source for key k
LookupId(k) == IF parse_id_from_key(k) # NoId THEN parse_id_from_key(k) ELSE k

\* C1: Repository.get(K) makes no source lookup when the cache holds a value
\* for K (and the cache read is served), and exactly one source lookup when
\* the cache holds no value for K.
C1_GetLookups ==
    [][\A k \in RepoKeys : GetStep(k) =>
            /\ (store[k] # Absent /\ ~last'.failed => last'.lookups = 0)
            /\ (store[k] = Absent => last'.lookups = 1)]_vars

C1_Witness ==
    /\ last.op = "get" /\ ~last.failed
    /\ last.lookups = 0 /\ last.ret # None

\* C2: on a miss for an alias key K (parse_id_from_key(K) = I # K) whose
\* entity the source holds, get(K) stores the entity under K with the default
\* TTL and changes no other cache entry (nor any index).
C2_StoresUnderQueriedKey ==
    [][\A k \in RepoKeys :
            (/\ GetStep(k) /\ ~last'.failed
             /\ store[k] = Absent
             /\ parse_id_from_key(k) # NoId /\ parse_id_from_key(k) # k
             /\ get_from_database(db, parse_id_from_key(k)) # None)
            => /\ store' = [store EXCEPT ![k] =
                              Entry(json_dumps(get_from_database(db, parse_id_from_key(k))), DefaultTTL)]
               /\ sets' = sets]_vars

C2_Witness ==
    /\ last.op = "get" /\ last.key = KA /\ ~last.failed
    /\ last.lookups = 1 /\ last.ret # None
    /\ store[KA] # Absent /\ store[KI] = Absent

\* C3: a get(K) that immediately follows a fault-free save(K, E) returns what
\* save cached -- the serialized form of the entity just written to the
\* source -- and makes no source lookup.
C3_GetAfterSave ==
    [][(/\ last.op = "save" /\ ~last.failed
        /\ last'.op = "get" /\ last'.key = last.key /\ ~last'.failed)
       => /\ last'.ret = last.ret
          /\ last'.ret = Dump(db[last.ret.oid])
          /\ (response_schema => last'.ret.kind = "dict")
          /\ last'.lookups = 0]_vars

C3_Witness ==
    /\ last.op = "get" /\ last.prev[1] = "save" /\ ~last.failed
    /\ last.lookups = 0 /\ last.ret # None

\* C4: for a key K absent from the cache whose id the source does not hold,
\* get(K) returns None, makes exactly one source lookup and leaves the cache
\* without an entry for K.
C4_AbsentEverywhere ==
    [][\A k \in RepoKeys :
            (GetStep(k) /\ store[k] = Absent /\ get_from_database(db, LookupId(k)) = None)
            => /\ last'.ret = None
               /\ last'.lookups = 1
               /\ store' = store]_vars

C4_Witness ==
    /\ last.op = "get" /\ last.ret = None /\ last.lookups = 1
    /\ store[last.key] = Absent

----------------------------------------------------------------------------
(* Properties of the timeline index (specification SpecIndex) *)

OwnerSet == TimelineOf(Owner)
ResolveStep == last'.op = "resolve"

\* D is referenced by the owner's index and has no cache entry
Dead(D) == D \in sets[OwnerSet].members /\ store[D] = Absent

\* what a fallback loader returns for a key
LoaderValue(k) == get_from_database(db, LookupId(k))

\* C5: self-healing: when the owner's index references a key D without cache
\* entry and the fallback loader returns a value for D, resolve with
\* readd_on_success returns D mapped to that value and D is a member of the
\* index afterwards.
C5_SelfHealing ==
    [][\A D \in IdxKeys :
            (/\ ResolveStep /\ last'.arg[1] # "none" /\ last'.arg[2]
             /\ Dead(D) /\ LoaderValue(D) # None)
            => /\ last'.values[D] = LoaderValue(D)
               /\ D \in sets'[OwnerSet].members]_vars

C5_Witness ==
    /\ last.op = "resolve" /\ last.arg = <<"source", TRUE>>
    /\ KA \in DOMAIN last.values /\ last.values[KA] # None
    /\ store[KA] = Absent
    /\ KA \in sets[OwnerSet].members

\* C6 as claimed: when resolve recovers a missing member D through the
\* fallback loader, the recovered value is in the cache under D afterwards.
C6_WritesBack ==
    [][\A D \in IdxKeys :
            (ResolveStep /\ last'.arg[1] # "none" /\ Dead(D) /\ LoaderValue(D) # None)
            => /\ store'[D] # Absent
               /\ json_loads(store'[D].text) = LoaderValue(D)]_vars

\* C6 amended: resolve itself never writes to the cache store; the entry of a
\* recovered member D is what the loader left: stored with the default TTL by
\* a loader that goes through Repository.get, still absent with a loader that
\* only returns the value.
C6_LoaderOwnsWriteBack ==
    [][ResolveStep =>
            /\ (last'.arg[1] \in {"none", "source"} => store' = store)
            /\ (last'.arg[1] = "repo_get" =>
                  \A k \in Keys :
                     store'[k] = IF Dead(k) /\ LoaderValue(k) # None
                                 THEN Entry(json_dumps(LoaderValue(k)), DefaultTTL)
                                 ELSE store[k])]_vars

C6_Witness ==
    /\ last.op = "resolve" /\ last.arg[1] = "repo_get"
    /\ DOMAIN last.values = {KA} /\ last.lookups = 1
    /\ store[KA] # Absent
    /\ last.values[KA] = json_loads(store[KA].text)

\* C7 as claimed: when the loader returns None for a dead key D, resolve drops
\* D from the owner's set.
C7_DropsDeadReference ==
    [][\A D \in IdxKeys :
            (ResolveStep /\ last'.arg[1] # "none" /\ Dead(D) /\ LoaderValue(D) = None)
            => D \notin sets'[OwnerSet].members]_vars

\* C7 amended: when the loader returns None for a dead key D, resolve returns
\* D mapped to None and leaves the owner's set as it was: D is still a member.
C7_KeepsDeadReference ==
    [][\A D \in IdxKeys :
            (ResolveStep /\ last'.arg[1] # "none" /\ Dead(D) /\ LoaderValue(D) = None)
            => /\ last'.values[D] = None
               /\ sets'[OwnerSet].members = sets[OwnerSet].members
               /\ D \in sets'[OwnerSet].members]_vars

C7_Witness ==
    /\ last.op = "resolve" /\ last.arg[1] # "none"
    /\ KB \in DOMAIN last.values /\ last.values[KB] = None
    /\ KB \in sets[OwnerSet].members

\* a resolve without loader has just returned M mapped to None, and members
\* is the call that follows
MembersAfterNull(M) ==
    /\ last.op = "resolve" /\ last.arg[1] = "none"
    /\ M \in DOMAIN last.values /\ last.values[M] = None
    /\ last'.op = "members"

\* C8 as claimed: without loader, after a resolve that returned the expired
\* member M mapped to None, the following members(O) no longer contains M.
C8_PrunedAfterResolve ==
    [][\A M \in IdxKeys : MembersAfterNull(M) => M \notin last'.members]_vars

\* C8 amended: without loader, resolve returns an expired member M mapped to
\* None and changes neither the cache nor the index, and the members(O) that
\* follows still contains M.
C8_StillMemberAfterResolve ==
    [][/\ \A M \in IdxKeys :
            (ResolveStep /\ last'.arg[1] = "none" /\ Dead(M))
            => (last'.values[M] = None /\ sets' = sets /\ store' = store)
       /\ \A M \in IdxKeys : MembersAfterNull(M) => M \in last'.members]_vars

C8_Witness ==
    /\ last.op = "members" /\ last.prev[1] = "resolve" /\ last.prev[2][1] = "none"
    /\ \E m \in last.members : store[m] = Absent
    /\ sets[OwnerSet].ttl \in 1..(2 * DefaultTTL - 1)

\* the index outlives an entry of TTL e: it never expires or has TTL >= 2e
Margin(index_ttl, e) == index_ttl = -1 \/ index_ttl >= 2 * e

\* C9 as claimed: after set_user_entity, add_reference_to_sets (with or
\* without ttl_seconds) and the re-add inside get_values_by_set, the TTL of
\* the index is at least twice the TTL of the entry just written.
C9_MarginEverywhere ==
    [][/\ last'.op \in {"set_user_entity", "add_reference"} /\ store'[last'.key] # Absent
            => Margin(sets'[OwnerSet].ttl, store'[last'.key].ttl)
       /\ \A D \in IdxKeys :
            (/\ ResolveStep /\ last'.arg[1] # "none" /\ last'.arg[2]
             /\ Dead(D) /\ store'[D] # Absent)
            => Margin(sets'[OwnerSet].ttl, store'[D].ttl)]_vars

EffectiveTTL(ttl_seconds) == IF ttl_seconds # 0 THEN ttl_seconds ELSE DefaultTTL

\* C9 amended: set_user_entity leaves the index with twice the TTL of the
\* entry it wrote; add_reference_to_sets leaves it with twice the default TTL
\* when ttl_seconds is not given and with exactly ttl_seconds when it is;
\* get_values_by_set never resets the TTL of the index.
C9_MarginWhereApplied ==
    [][/\ last'.op = "set_user_entity"
            => /\ store'[last'.key].ttl = EffectiveTTL(last'.arg[1])
               /\ sets'[OwnerSet].ttl = 2 * EffectiveTTL(last'.arg[1])
       /\ last'.op = "add_reference"
            => sets'[OwnerSet].ttl = IF last'.arg[1] = 0 THEN 2 * DefaultTTL ELSE last'.arg[1]
       /\ ResolveStep => sets'[OwnerSet].ttl = sets[OwnerSet].ttl]_vars

C9_Witness ==
    /\ last.op = "set_user_entity" /\ last.arg[1] # 0
    /\ store[last.key] # Absent
    /\ sets[OwnerSet].ttl = 2 * store[last.key].ttl

----------------------------------------------------------------------------
(* Properties of the CacheStrategy operations (specification SpecStore) *)

StoreOps ==
    {"cache.get", "cache.set", "cache.delete", "cache.exists", "cache.get_many",
     "cache.set_many", "cache.delete_many", "cache.get_by_pattern",
     "cache.delete_by_pattern", "cache.extend_ttl"}

\* the miss/false/empty outcome of the call recorded in last
MissOutcome ==
    CASE last.op = "cache.get" -> last.ret = None
      [] last.op \in {"cache.set", "cache.delete", "cache.exists", "cache.set_many",
                      "cache.extend_ttl"} -> ~last.ok
      [] last.op = "cache.get_many" -> last.values = [k \in last.keys |-> None]
      [] last.op = "cache.get_by_pattern" -> last.values = NoValues
      [] last.op \in {"cache.delete_many", "cache.delete_by_pattern"} -> last.count = 0

\* C10: fail-open: no call of get, set, delete, exists, get_many, set_many,
\* delete_many, get_by_pattern, delete_by_pattern or extend_ttl lets an
\* exception out, and a call in which a backend command failed returns its
\* miss/false/empty outcome: None, False, the all-None map, the empty map, 0.
C10_FailOpen ==
    last.op \in StoreOps => /\ ~last.raised
                            /\ (last.failed => MissOutcome)

\* extend_ttl on a live key whose TTL differs from the default, with a failing
\* backend: False, the TTL as it was
C10_Witness ==
    /\ last.op = "cache.extend_ttl" /\ last.failed /\ ~last.ok /\ ~last.raised
    /\ store[last.key] # Absent
    /\ store[last.key].ttl # DefaultTTL

----------------------------------------------------------------------------
(* Properties of the timeline operations under faults (specification        *)
(* SpecTimeline)                                                            *)

TimelineOps ==
    {"get_user_timeline", "clear_user_timeline", "set_user_entity", "delete_user_entity",
     "extend_user_entity_ttl", "get_all_user_entities", "extend_all_user_entities_ttl",
     "get_values_by_set"}

\* the empty/false/0 outcome of the timeline call recorded in last
EmptyOutcome ==
    CASE last.op = "get_user_timeline" -> last.members = {}
      [] last.op \in {"set_user_entity", "delete_user_entity", "extend_user_entity_ttl"} -> ~last.ok
      [] last.op \in {"get_all_user_entities", "get_values_by_set"} -> last.values = NoValues
      [] last.op \in {"clear_user_timeline", "extend_all_user_entities_ttl"} -> last.count = 0

\* C11 as claimed: no timeline operation (get_user_timeline,
\* clear_user_timeline, set_user_entity, delete_user_entity,
\* extend_user_entity_ttl, get_all_user_entities,
\* extend_all_user_entities_ttl, get_values_by_set) lets an exception out,
\* and a call whose first backend command fails returns its empty/false/0
\* outcome.
C11_TimelineFailOpen ==
    last.op \in TimelineOps => /\ ~last.raised
                               /\ (last.fault = 1 => EmptyOutcome)

----------------------------------------------------------------------------
(* Specification SpecFlight: Repository.get called by concurrent threads.  *)
(* Each statement of get that talks to the cache or to the source is one   *)
(* step of the calling thread; save is the atomic call of Spec.            *)

\* cached_data = self.cache.get(id)
get_cache_read(st, id) == cache_get(st, id, FALSE).ret

\* entity = self.get_from_database(parsed_id if parsed_id else id)
get_source_lookup(d, id) ==
    LET parsed_id == parse_id_from_key(id)
    IN  get_from_database(d, IF parsed_id # NoId THEN parsed_id ELSE id)

\* population that spares an entry another caller has written meanwhile
get_populate_if_absent(st, id, entity) ==
    IF st[id] # Absent THEN st ELSE cache_set(st, id, entity, 0, FALSE).st

\* self.cache.set(id, entity)
get_populate(st, id, entity) == cache_set(st, id, entity, 0, FALSE).st

InitFlight ==
    /\ store = [k \in Keys |-> Absent]
    /\ sets = [s \in SetKeys |-> NoSet]
    /\ db \in [Ids -> {None} \cup Rows]
    /\ response_schema = TRUE
    /\ last = NoCall
    /\ calls = NoCalls /\ limiter = NoLimiter /\ auth = NoAuth

\* thread c enters get(id)
FlightCall(c, id) ==
    /\ calls[c].pc \in {"idle", "done"}
    /\ calls' = [calls EXCEPT ![c] = [Idle EXCEPT !.pc = "reading", !.op = "get", !.id = id]]
    /\ UNCHANGED <<store, sets, db, response_schema, limiter, auth, last>>

\* thread c reads the cache: a hit returns, a miss goes on to the source
FlightCacheGet(c) ==
    /\ calls[c].pc = "reading"
    /\ LET cached == get_cache_read(store, calls[c].id)
       IN  calls' = [calls EXCEPT ![c] =
                        IF cached # None THEN [@ EXCEPT !.pc = "done", !.ret = cached]
                        ELSE [@ EXCEPT !.pc = "missed"]]
    /\ UNCHANGED <<store, sets, db, response_schema, limiter, auth, last>>

\* thread c asks the source: nothing found returns None
FlightSourceLookup(c) ==
    /\ calls[c].pc = "missed"
    /\ LET entity == get_source_lookup(db, calls[c].id)
       IN  calls' = [calls EXCEPT ![c] =
                        IF entity = None THEN [@ EXCEPT !.pc = "done", !.lookups = @ + 1]
                        ELSE [@ EXCEPT !.pc = "loaded", !.entity = entity, !.lookups = @ + 1]]
    /\ UNCHANGED <<store, sets, db, response_schema, limiter, auth, last>>

\* thread c populates the cache with what it loaded and returns it
FlightCacheSet(c) ==
    /\ calls[c].pc = "loaded"
    /\ store' = get_populate(store, calls[c].id, calls[c].entity)
    /\ calls' = [calls EXCEPT ![c] = [@ EXCEPT !.pc = "done", !.ret = calls[c].entity]]
    /\ UNCHANGED <<sets, db, response_schema, limiter, auth, last>>

FlightKeys == {KA}

NextFlight ==
    \/ \E c \in Callers, id \in FlightKeys : FlightCall(c, id)
    \/ \E c \in Callers : FlightCacheGet(c)
    \/ \E c \in Callers : FlightSourceLookup(c)
    \/ \E c \in Callers : FlightCacheSet(c)
    \/ \E e \in Entities : Save(KA, e)

SpecFlight == InitFlight /\ [][NextFlight]_vars

----------------------------------------------------------------------------
(* Specification SpecRace: Repository.get and Repository.save called by    *)
(* concurrent threads on one key, each statement that talks to the source  *)
(* or to the cache being one step of the calling thread.                   *)

InitRace ==
    /\ store = [k \in Keys |-> Absent]
    /\ sets = [s \in SetKeys |-> NoSet]
    /\ db \in [Ids -> {None} \cup Rows]
    /\ response_schema = TRUE
    /\ last = NoCall
    /\ calls = NoCalls /\ limiter = NoLimiter /\ auth = NoAuth

\* thread c enters save(id, entity)
RaceSaveCall(c, id, entity) ==
    /\ calls[c].pc \in {"idle", "done"}
    /\ calls' = [calls EXCEPT ![c] = [Idle EXCEPT !.pc = "saving", !.op = "save", !.id = id, !.entity = entity]]
    /\ UNCHANGED <<store, sets, db, response_schema, limiter, auth, last>>

\* saved_entity = self.save_to_database(entity); the schema dump follows
RaceSaveToDatabase(c) ==
    /\ calls[c].pc = "saving"
    /\ LET saved == save_to_database(db, calls[c].entity)
       IN  /\ db' = saved.db
           /\ calls' = [calls EXCEPT ![c] = [@ EXCEPT !.pc = "persisted",
                                                      !.ret = IF response_schema THEN Dump(saved.ret) ELSE saved.ret]]
    /\ UNCHANGED <<store, sets, response_schema, limiter, auth, last>>

\* self.cache.set(id, serialized_entity)
RaceSaveCacheSet(c) ==
    /\ calls[c].pc = "persisted"
    /\ store' = cache_set(store, calls[c].id, calls[c].ret, 0, FALSE).st
    /\ calls' = [calls EXCEPT ![c] = [@ EXCEPT !.pc = "cached"]]
    /\ UNCHANGED <<sets, db, response_schema, limiter, auth, last>>

\* self.after_save_update_cache(id, serialized_entity); return
RaceSaveHook(c) ==
    /\ calls[c].pc = "cached"
    /\ sets' = after_save_update_cache(sets, calls[c].id, calls[c].ret, NoFail, 1)
    /\ calls' = [calls EXCEPT ![c] = [@ EXCEPT !.pc = "done"]]
    /\ UNCHANGED <<store, db, response_schema, limiter, auth, last>>

RaceKeys == {KA}

NextRace ==
    \/ \E c \in Callers, id \in RaceKeys : FlightCall(c, id)
    \/ \E c \in Callers : FlightCacheGet(c)
    \/ \E c \in Callers : FlightSourceLookup(c)
    \/ \E c \in Callers : FlightCacheSet(c)
    \/ \E c \in Callers, id \in RaceKeys, e \in Rows : RaceSaveCall(c, id, e)
    \/ \E c \in Callers : RaceSaveToDatabase(c)
    \/ \E c \in Callers : RaceSaveCacheSet(c)
    \/ \E c \in Callers : RaceSaveHook(c)

SpecRace == InitRace /\ [][NextRace]_vars

----------------------------------------------------------------------------
(* Specification SpecClear: clear_user_timeline run command by command by  *)
(* a thread that may die between two commands.  The timeline is written by *)
(* set_user_entity while no clear is under way.                            *)

\* count = self.delete_many(keys_str): the second command of the clear
clear_purge_index_first(st, ss, timeline_key, keys, failed) ==
    IF failed THEN [st |-> st, sets |-> ss, ret |-> 0]
    ELSE [st |-> st, sets |-> [ss EXCEPT ![timeline_key] = NoSet], ret |-> 0]

clear_purge(st, ss, timeline_key, keys, failed) ==
    LET deleted == cache_delete_many(st, SeqOf(keys), failed)
    IN  [st |-> deleted.st, sets |-> ss, ret |-> deleted.ret]

\* self.redis.delete(timeline_key): the third command of the clear
clear_drop_timeline(ss, timeline_key, failed) ==
    IF failed THEN ss ELSE [ss EXCEPT ![timeline_key] = NoSet]

InitClear ==
    /\ store = [k \in Keys |-> Absent]
    /\ sets = [s \in SetKeys |-> NoSet]
    /\ db = [i \in Ids |-> [kind |-> "model", oid |-> i, data |-> 1]]
    /\ response_schema = TRUE
    /\ last = NoCall
    /\ calls = NoCalls /\ limiter = NoLimiter /\ auth = NoAuth

\* no clear is between its first and its last command
NoClearUnderWay == \A c \in Callers : calls[c].pc \in {"idle", "done", "crashed"}

ClearPopulate(entity_id, value, ttl_seconds) ==
    /\ NoClearUnderWay
    /\ TlSetUserEntity(entity_id, value, ttl_seconds)

\* thread c enters clear_user_timeline(pin=Owner)
ClearCall(c) ==
    /\ NoClearUnderWay
    /\ calls' = [calls EXCEPT ![c] = [Idle EXCEPT !.pc = "clearing", !.op = "clear_user_timeline",
                                                  !.id = _format_user_timeline_key(Owner)]]
    /\ UNCHANGED <<store, sets, db, response_schema, limiter, auth, last>>

\* keys = self.redis.smembers(timeline_key); if not keys: return 0
ClearSmembers(c) ==
    /\ calls[c].pc = "clearing"
    /\ \E failed \in BOOLEAN :
          LET keys == redis_smembers(sets, calls[c].id)
          IN  calls' = [calls EXCEPT ![c] =
                           IF failed \/ keys = {} THEN [@ EXCEPT !.pc = "done"]
                           ELSE [@ EXCEPT !.pc = "listed", !.keys = keys]]
    /\ UNCHANGED <<store, sets, db, response_schema, limiter, auth, last>>

\* count = self.delete_many(keys_str), which swallows its own failure
ClearDeleteMany(c) ==
    /\ calls[c].pc = "listed"
    /\ \E failed \in BOOLEAN :
          LET r == clear_purge(store, sets, calls[c].id, calls[c].keys, failed)
          IN  /\ store' = r.st
              /\ sets' = r.sets
              /\ calls' = [calls EXCEPT ![c] = [@ EXCEPT !.pc = "purged", !.count = r.ret]]
    /\ UNCHANGED <<db, response_schema, limiter, auth, last>>

\* self.redis.delete(timeline_key); return count -- or 0 from the handler
ClearDeleteTimeline(c) ==
    /\ calls[c].pc = "purged"
    /\ \E failed \in BOOLEAN :
          /\ sets' = clear_drop_timeline(sets, calls[c].id, failed)
          /\ calls' = [calls EXCEPT ![c] = [@ EXCEPT !.pc = "done",
                                                     !.count = IF failed THEN 0 ELSE calls[c].count]]
    /\ UNCHANGED <<store, db, response_schema, limiter, auth, last>>

\* the thread dies inside the call
ClearCrash(c) ==
    /\ calls[c].pc \in {"clearing", "listed", "purged"}
    /\ calls' = [calls EXCEPT ![c] = [@ EXCEPT !.pc = "crashed"]]
    /\ UNCHANGED <<store, sets, db, response_schema, limiter, auth, last>>

\* the thread that clears
ClearCallers == {"t1"}

NextClear ==
    \/ \E e \in {"O1", "O2"}, v \in Dicts, t \in TimelineTTLArgs : ClearPopulate(e, v, t)
    \/ \E c \in ClearCallers : ClearCall(c)
    \/ \E c \in ClearCallers : ClearSmembers(c)
    \/ \E c \in ClearCallers : ClearDeleteMany(c)
    \/ \E c \in ClearCallers : ClearDeleteTimeline(c)
    \/ \E c \in ClearCallers : ClearCrash(c)

SpecClear == InitClear /\ [][NextClear]_vars

----------------------------------------------------------------------------
(* Properties of the Repository with batches and raising hooks             *)
(* (specification SpecRepo)                                                 *)

GetManyStep == last'.op = "get_many"
SaveStep == last'.op = "save"

\* what the source returns for key k
SourceValue(k) == get_from_database(db, LookupId(k))

\* what a served cache read returns for key k
CachedValue(k) == cache_get(store, k, FALSE).ret

\* C12: while the cache backend is unavailable, get(K) returns what the
\* source returns for K after one source lookup; get_many(keys) returns, for
\* exactly the keys asked, what the source returns for each, after one lookup
\* per key; save(K, E) writes E to the source and returns the saved entity;
\* none of them raises.
C12_OutageFallsThrough ==
    [][/\ \A k \in RepoKeys :
            (GetStep(k) /\ last'.fault = 1)
            => /\ last'.ret = SourceValue(k)
               /\ last'.lookups = 1
               /\ ~last'.raised
       /\ (GetManyStep /\ last'.failed)
            => /\ DOMAIN last'.values = Range(last'.batch)
               /\ \A k \in Range(last'.batch) : last'.values[k] = SourceValue(k)
               /\ last'.lookups = Cardinality(Range(last'.batch))
               /\ ~last'.raised
       /\ (SaveStep /\ last'.failed /\ last'.arg # <<"source_raises">>)
            => /\ ~last'.raised
               /\ last'.ret # None
               /\ db'[last'.ret.oid] = [kind |-> "model", oid |-> last'.ret.oid, data |-> last'.ret.data]
               /\ last'.ret = Dump(db'[last'.ret.oid])]_vars

C12_Witness ==
    /\ last.op = "get_many" /\ last.failed /\ ~last.raised
    /\ last.batch = <<KA, KB>>
    /\ last.values[KA] # None /\ last.values[KB] = None
    /\ store[KA] = Absent

\* C13: invalidate(K) never raises; served on a present key it removes the
\* entry and returns True; on a key without entry -- as after a served
\* invalidate(K) with no write in between -- it returns False and leaves the
\* cache unchanged.
C13_InvalidateIdempotent ==
    [][\A k \in RepoKeys :
            (last'.op = "invalidate" /\ last'.key = k)
            => /\ ~last'.raised
               /\ sets' = sets
               /\ (store[k] # Absent /\ ~last'.failed
                     => last'.ok /\ store' = [store EXCEPT ![k] = Absent])
               /\ (store[k] = Absent => ~last'.ok /\ store' = store)
               /\ (last.op = "invalidate" /\ last.key = k /\ ~last.failed
                     => ~last'.ok /\ store' = store)]_vars

C13_Witness ==
    /\ last.op = "invalidate" /\ ~last.failed /\ ~last.ok
    /\ last.prev[1] = "invalidate"
    /\ db["O1"] # None

Count(q, k) == Cardinality({i \in 1..Len(q) : q[i] = k})
IsPermutation(p, q) == Len(p) = Len(q) /\ \A k \in Range(p) \cup Range(q) : Count(p, k) = Count(q, k)

\* the availability of the backend during the call recorded in last'
FmOfStep == IF last'.failed THEN Outage ELSE NoFail

\* C14: get_many(keys) returns a map whose keys are exactly the keys of the
\* list, with None for every key that neither the cache nor the source
\* resolves, and every permutation of the list gives the same map.
C14_GetManyKeySet ==
    [][GetManyStep =>
            /\ DOMAIN last'.values = Range(last'.batch)
            /\ \A k \in Range(last'.batch) :
                  ((last'.failed \/ CachedValue(k) = None) /\ SourceValue(k) = None)
                  => last'.values[k] = None
            /\ \A p \in Batches :
                  IsPermutation(p, last'.batch)
                  => RepoGetMany(store, db, p, FmOfStep).ret = last'.values]_vars

C14_Witness ==
    /\ last.op = "get_many" /\ ~last.failed
    /\ last.batch = <<KB, KA>>
    /\ last.values[KA] # None /\ last.values[KB] = None

\* C15: a served get_many(keys) makes one source lookup for each distinct key
\* the batch fetch missed and none for a key it hit; each entity found is
\* stored under the queried key with the default TTL, and no other entry
\* changes.
C15_GetManyHydrates ==
    [][(GetManyStep /\ ~last'.failed) =>
            /\ last'.lookups = Cardinality({k \in Range(last'.batch) : CachedValue(k) = None})
            /\ \A k \in Keys :
                  store'[k] = IF k \in Range(last'.batch) /\ CachedValue(k) = None
                                   /\ SourceValue(k) # None
                              THEN Entry(json_dumps(SourceValue(k)), DefaultTTL)
                              ELSE store[k]
            /\ \A k \in Range(last'.batch) :
                  last'.values[k] = IF CachedValue(k) # None THEN CachedValue(k)
                                    ELSE SourceValue(k)]_vars

C15_Witness ==
    /\ last.op = "get_many" /\ ~last.failed
    /\ last.batch = <<KA, KA>> /\ last.lookups = 1
    /\ store[KA] # Absent /\ store[KI] = Absent
    /\ last.values[KA] = json_loads(store[KA].text)

\* C16: when save_to_database raises, save(id, entity) raises to the caller,
\* and neither the cache entry of id (nor any other), nor the timeline the
\* after-save hook maintains, nor the source has changed: the source is
\* called before any cache write and before the hook.
C16_SourceErrorPropagates ==
    [][(SaveStep /\ last'.arg = <<"source_raises">>)
            => /\ last'.raised
               /\ last'.ret = None
               /\ store' = store
               /\ sets' = sets
               /\ db' = db]_vars

C16_Witness ==
    /\ last.op = "save" /\ last.arg = <<"source_raises">> /\ last.raised
    /\ ~last.failed
    /\ store[last.key] # Absent

\* C17: when the after-save hook raises, save(id, entity) does not raise and
\* returns the serialized saved entity; the source holds the entity, and,
\* the cache being available, the entry of id holds the serialized entity
\* with the default TTL.
C17_HookErrorSwallowed ==
    [][(SaveStep /\ last'.arg = <<"hook_raises">>)
            => /\ ~last'.raised
               /\ \E e \in Entities :
                     /\ last'.ret = Dump(e)
                     /\ db' = save_to_database(db, e).db
               /\ ~last'.failed
                     => store' = [store EXCEPT ![last'.key] = Entry(json_dumps(last'.ret), DefaultTTL)]
               /\ sets' = sets]_vars

C17_Witness ==
    /\ last.op = "save" /\ last.arg = <<"hook_raises">> /\ ~last.raised
    /\ ~last.failed
    /\ last.ret # None
    /\ store[last.key] = Entry(json_dumps(last.ret), DefaultTTL)
    /\ Dump(db[last.ret.oid]) = last.ret

\* a step of the clock
TickStep == last'.op = "tick"

----------------------------------------------------------------------------
(* Properties of concurrent gets (specification SpecFlight)                *)

\* the callers that saw the miss of key k and have returned
MissedAndDone(k) == {c \in Callers : calls[c].pc = "done" /\ calls[c].id = k /\ calls[c].lookups > 0}

\* C18: nothing joins concurrent gets of one key: a caller that has observed
\* the miss makes its own source lookup whatever the other callers do, and a
\* caller that loaded an entity writes it to the cache under the queried key
\* whatever the cache holds by then, and returns it.  So when two callers
\* both observe the miss, the source is invoked twice and the cache is
\* populated twice.
C18_NoSingleFlight ==
    [][\A c \in Callers :
         /\ (calls[c].pc = "missed" /\ calls'[c] # calls[c])
              => /\ calls'[c].lookups = 1
                 /\ db' = db
                 /\ \/ /\ get_source_lookup(db, calls[c].id) = None
                       /\ calls'[c].pc = "done" /\ calls'[c].ret = None
                    \/ /\ get_source_lookup(db, calls[c].id) # None
                       /\ calls'[c].pc = "loaded"
                       /\ calls'[c].entity = get_source_lookup(db, calls[c].id)
         /\ (calls[c].pc = "loaded" /\ calls'[c] # calls[c])
              => /\ store'[calls[c].id] = Entry(json_dumps(calls[c].entity), DefaultTTL)
                 /\ calls'[c].pc = "done"
                 /\ calls'[c].ret = calls[c].entity
                 /\ calls'[c].lookups = 1
         /\ (calls[c].pc = "reading" /\ calls'[c] # calls[c] /\ store[calls[c].id] = Absent)
              => calls'[c].pc = "missed"]_vars

\* both callers observed the miss of the same cold key: two source lookups,
\* and each has written the entry
C18_Witness ==
    /\ MissedAndDone(KA) = Callers
    /\ \A c \in Callers : calls[c].lookups = 1 /\ calls[c].ret # None
    /\ store[KA] # Absent
    /\ last = NoCall

----------------------------------------------------------------------------
(* Properties of clear_user_timeline (specification SpecTimeline)          *)

ClearStep == last'.op = "clear_user_timeline"

\* the members of the owner's timeline
OwnerMembers(ss) == redis_smembers(ss, TimelineOf(Owner))

\* C20: clear_user_timeline(owner) served without backend failure leaves the
\* owner's timeline without members and no former member key in the cache,
\* touches no other entry, and returns the number of entries removed.  The
\* member entries are deleted before the timeline key: when only the delete
\* of the timeline key fails the entries are gone and the timeline is
\* intact, and the timeline is never removed while an entry of a former
\* member remains unless the batch delete of the entries itself failed.
C20_ClearEntriesThenIndex ==
    [][ClearStep =>
         /\ last'.fault = 0
              => /\ OwnerMembers(sets') = {}
                 /\ sets'[TimelineOf(Owner)] = NoSet
                 /\ \A k \in Keys :
                       store'[k] = IF k \in OwnerMembers(sets) THEN Absent ELSE store[k]
                 /\ last'.count = Cardinality({k \in OwnerMembers(sets) : store[k] # Absent})
         /\ (last'.fault = 3 /\ ~last'.failed /\ OwnerMembers(sets) # {})
              => /\ sets' = sets
                 /\ \A k \in OwnerMembers(sets) : store'[k] = Absent
         /\ (OwnerMembers(sets') # OwnerMembers(sets)
               /\ \E k \in OwnerMembers(sets) : store'[k] # Absent)
              => last'.fault = 2]_vars

\* a served clear of a timeline with two members, one of them with its
\* entry still in the cache
C20_Witness ==
    /\ last.op = "clear_user_timeline" /\ last.fault = 0
    /\ Cardinality(last.members) = 2 /\ last.count = 1
    /\ OwnerMembers(sets) = {}
    /\ \A k \in last.members : store[k] = Absent

----------------------------------------------------------------------------
(* Properties of racing gets and saves (specification SpecRace)            *)

\* every thread has returned from its call
Quiescent == \A c \in Callers : calls[c].pc \in {"idle", "done"}

\* the entry of key k holds what the source holds for it
Coherent(k) == store[k] # Absent => json_loads(store[k].text) = get_source_lookup(db, k)

\* C28: when two concurrent save calls on the same id have both returned,
\* the value cached under the id is the value the source holds.
C28_SaveSaveCoherent ==
    (/\ \A c \in Callers : calls[c].pc = "done" /\ calls[c].op = "save" /\ calls[c].id = KA)
    => /\ store[KA] # Absent
       /\ Coherent(KA)

\* C29: when a get(K) that missed the cache and a concurrent save(K, E') have
\* both returned, the value cached under K is the value the source holds.
C29_GetSaveCoherent ==
    (/\ Quiescent
     /\ \E c \in Callers : calls[c].op = "get" /\ calls[c].id = KA /\ calls[c].lookups = 1
     /\ \E c \in Callers : calls[c].op = "save" /\ calls[c].id = KA)
    => /\ store[KA] # Absent
       /\ Coherent(KA)

----------------------------------------------------------------------------
(* Properties of an interrupted clear (specification SpecClear)            *)

\* key k has a live entry that the timeline of the clear no longer lists
Orphaned(k, st, ss) == st[k] # Absent /\ k \notin redis_smembers(ss, TimelineOf(Owner))

----------------------------------------------------------------------------
(* Properties of extend_many_ttl (specification SpecStore)                 *)

\* C30: a served extend_many_ttl(keys) returns the number of keys of the list
\* that exist in the store, which are the keys whose TTL it extended.
C30_ExtendManyCounts ==
    (last.op = "cache.extend_many_ttl" /\ ~last.failed)
    => last.count = Cardinality({k \in last.keys : store[k] # Absent})

----------------------------------------------------------------------------
(* Properties of set, add_reference, resolve in a row (SpecRoundTrip)      *)

\* C22: set(M, P, ttl), then add_reference(O, M), then resolve(O), with no
\* expiry in between, returns exactly the map {M: P} when O had no member
\* other than M before.
C22_SetReferenceResolve ==
    (last.op = "round_trip" /\ last.members \subseteq {last.key})
    => last.values = (last.key :> last.ret)

C22_Witness ==
    /\ last.op = "round_trip" /\ last.members = {}
    /\ last.key = KB
    /\ last.values = (KB :> last.ret)
    /\ last.ret \in Dicts

----------------------------------------------------------------------------
(* Properties of timeline membership (specification SpecMembership)        *)

\* the enumeration resolves key k: the cache or the source has it
Resolvable(k) == CachedValue(k) # None \/ SourceValue(k) # None

\* a member observed missing in cache and source is pruned by the
\* enumeration, every other member stays
PrunesUnresolved ==
    last'.op = "get_account_orders"
    => \A k \in OwnerMembers(sets) : (k \in OwnerMembers(sets')) = Resolvable(k)

----------------------------------------------------------------------------
(* Properties of the bulk helpers (specification SpecBulk)                 *)

\* the members of set s the batch fetch has no value for (all of them when
\* the fetch failed)
MissingMembers(s, failed) ==
    {k \in redis_smembers(sets, s) : cache_get_many(store, SeqOf(redis_smembers(sets, s)), failed).ret[k] = None}

----------------------------------------------------------------------------
(* Properties of a malformed payload (specification SpecMalformed)         *)

IsMalformed(k) == store[k] # Absent /\ ~JsonWellFormed(store[k].text)

\* C25: when the payload stored under K is not deserializable, cache get(K)
\* returns None, and Repository.get(K) returns what it returns, looks up the
\* source as often and leaves the store as it does when K is absent.
C25_MalformedIsMiss ==
    [][/\ (last'.op = "cache.get" /\ IsMalformed(last'.key)) => (last'.ret = None /\ ~last'.raised)
       /\ (last'.op = "get" /\ IsMalformed(last'.key))
            => \E fm \in FailModes(2) :
                  /\ fm.at = last'.fault
                  /\ LET absent == RepoGet(redis_delete(store, last'.key), db, last'.key, fm)
                     IN  /\ last'.ret = absent.ret
                         /\ last'.lookups = absent.lookups /\ last'.lookups = 1
                         /\ \/ store' = absent.st
                            \/ absent.st[last'.key] = Absent /\ store' = store]_vars

\* a get over a malformed payload answered from the source, the payload
\* replaced by the entity
C25_Witness ==
    /\ last.op = "get" /\ last.fault = 0 /\ last.lookups = 1 /\ last.ret # None
    /\ last.key = KA /\ store[KA] # Absent /\ JsonWellFormed(store[KA].text)
    /\ store[KA].ttl = DefaultTTL /\ store[KI] # Absent /\ ~JsonWellFormed(store[KI].text)

----------------------------------------------------------------------------
(* Properties of the key format (specification SpecKeys)                   *)

\* the shape of the key a call of _format_key asks for, from the arguments
\* supplied: a = <<entity_type, pin, entity_id, master_pin, marketplace_type,
\* marketplace_shop_id>>
Shape(a) ==
    IF a[1] = "accounts"
    THEN IF a[3] # "" /\ a[6] \in {"", a[3]}
         THEN IF a[5] # "" THEN "account" ELSE "legacy_account"
         ELSE "other"
    ELSE IF a[5] # "" /\ a[6] # "" THEN IF a[3] # "" THEN "external" ELSE "collection"
    ELSE IF a[5] = "" /\ a[6] = "" THEN IF a[3] # "" THEN "owner_entity" ELSE "owner_collection"
    ELSE "other"

\* the descriptor of the call: the entity type and the discriminators its
\* shape carries, the owner being the master of a collaborator
Descriptor(a) ==
    LET owner == IF a[4] # "" THEN a[4] ELSE a[2]
        shape == Shape(a)
    IN  [pin |-> IF shape \in {"owner_entity", "owner_collection"} THEN owner ELSE "",
         entity_type |-> a[1],
         marketplace_type |-> a[5],
         marketplace_shop_id |-> IF shape \in {"account", "legacy_account"} THEN a[3] ELSE a[6],
         entity_id |-> a[3]]

\* C26: for a call of _format_key in one of the supported shapes, _parse_key
\* of the key returns the entity type and the discriminators supplied, and
\* two calls with different descriptors format different keys.
C26_FormatParseInverse ==
    [][/\ (last'.op = "parse_key" /\ Shape(last'.arg) # "other") => last'.ret = Descriptor(last'.arg)
       /\ (/\ last.op = "format_key" /\ last'.op = "format_key"
           /\ Shape(last.arg) # "other" /\ Shape(last'.arg) # "other"
           /\ Descriptor(last.arg) # Descriptor(last'.arg))
            => last.key # last'.key]_vars

----------------------------------------------------------------------------
(* Properties of collaborators (specification SpecCollab)                  *)

CollabOps == {"set_user_entity", "get_user_timeline", "get_all_user_entities", "delete_user_entity", "clear_user_timeline"}

\* the step is a timeline operation called with pin = Collaborator and
\* master_pin = Master
ByCollaborator == last'.op \in CollabOps /\ last'.arg[1] = Collaborator /\ last'.arg[2] = Master

\* what the operation recorded in l does to st and ss, and what it answers,
\* when the master calls it with the same arguments
AsMaster(l, st, ss) ==
    IF l.op = "set_user_entity"
    THEN LET r == set_user_entity(st, ss, "orders", Master, l.arg[3], l.ret, "", l.arg[4], "meli", "S1", NoFail)
         IN  [st |-> r.st, sets |-> r.sets, ok |-> r.ret, count |-> 0, members |-> {}, values |-> NoValues]
    ELSE IF l.op = "delete_user_entity"
    THEN LET r == delete_user_entity(st, ss, "orders", Master, l.arg[3], "", "meli", "S1", NoFail)
         IN  [st |-> r.st, sets |-> r.sets, ok |-> r.ret, count |-> 0, members |-> {}, values |-> NoValues]
    ELSE IF l.op = "clear_user_timeline"
    THEN LET r == clear_user_timeline(st, ss, Master, "", NoFail)
         IN  [st |-> r.st, sets |-> r.sets, ok |-> FALSE, count |-> r.ret, members |-> {}, values |-> NoValues]
    ELSE IF l.op = "get_user_timeline"
    THEN [st |-> st, sets |-> ss, ok |-> FALSE, count |-> 0,
          members |-> get_user_timeline(ss, Master, "", FALSE).ret, values |-> NoValues]
    ELSE [st |-> st, sets |-> ss, ok |-> FALSE, count |-> 0, members |-> {},
          values |-> get_all_user_entities(st, ss, Master, "", NoFail).ret]

\* C27: a timeline operation called with pin = C and master_pin = M leaves the
\* timeline of C as it was, and changes the store and the timelines and
\* answers exactly as the same operation called by M itself, so what either
\* of them writes the other one reads.
C27_CollaboratorUsesMasterTimeline ==
    [][ByCollaborator
        => /\ sets'[TimelineOf(Collaborator)] = sets[TimelineOf(Collaborator)]
           /\ LET m == AsMaster(last', store, sets)
              IN  /\ store' = m.st /\ sets' = m.sets
                  /\ last'.ok = m.ok /\ last'.count = m.count
                  /\ last'.members = m.members /\ last'.values = m.values]_vars

\* the collaborator reads, through the master's timeline, an entity the
\* master wrote, while the collaborator's own timeline holds another entry
C27_Witness ==
    /\ last.op = "get_all_user_entities" /\ last.arg[1] = Collaborator /\ last.arg[2] = Master
    /\ DOMAIN last.values = {<<"O1">>}
    /\ redis_smembers(sets, TimelineOf(Master)) = {KA}
    /\ redis_smembers(sets, TimelineOf(Collaborator)) = {KB}

\* C31: in get_many(keys) with every command served, a key whose stored
\* payload is well-formed gets that stored value, whatever is stored under
\* the other keys of the batch.
C31_BatchIsolation ==
    (last.op = "cache.get_many" /\ last.fault = 0)
        => \A k \in last.keys :
              (store[k] # Absent /\ JsonWellFormed(store[k].text))
                  => last.values[k] = json_loads(store[k].text)

----------------------------------------------------------------------------
(* Properties of raising loaders (specification SpecLoader)                *)

\* the value get_many has for member k of the owner's timeline
CachedMember(k) == cache_get_many(store, SeqOf(OwnerMembers(sets)), FALSE).ret[k]

\* what the source holds for reference k
LoadedMember(k) == get_from_database(db, parse_id_from_key(k))

\* C32: when the fallback loader raises for a missing member, the resolve
\* still returns a value for every member: the cached value where there is
\* one, the loader's result where the loader returned, None for the member
\* the loader raised on; the loader was called for every missing member and
\* no exception leaves the call.
C32_RaisingLoaderIsolated ==
    [][(last'.op = "resolve" /\ last'.arg[1] \in RaisingLoaders /\ OwnerMembers(sets) # {})
        => /\ DOMAIN last'.values = OwnerMembers(sets)
           /\ \A k \in OwnerMembers(sets) :
                 last'.values[k] = IF CachedMember(k) # None THEN CachedMember(k)
                                   ELSE IF loader_raises(last'.arg[1], db, k) THEN None
                                   ELSE LoadedMember(k)
           /\ last'.lookups = Cardinality({k \in OwnerMembers(sets) : CachedMember(k) = None})
           /\ ~last'.raised]_vars

\* the loader raised on the one missing member, next to a member served from
\* the cache
C32_Witness ==
    /\ last.op = "resolve" /\ last.arg[1] = "raise_unknown" /\ last.lookups = 1
    /\ DOMAIN last.values = {KA, KB}
    /\ last.values[KA] # None /\ last.values[KB] = None
    /\ store[KA] # Absent /\ db["O1"] = None

----------------------------------------------------------------------------
(* Further properties of the timeline operations (specification            *)
(* SpecTimeline)                                                            *)

\* C33: whenever set_user_entity returns False (the value was not stored),
\* the member set of the owner's timeline is as it was before the call.
C33_IndexedOnlyWhenStored ==
    [][(last'.op = "set_user_entity" /\ ~last'.ok)
        => OwnerMembers(sets') = OwnerMembers(sets)]_vars

----------------------------------------------------------------------------
(* Properties of delete_user_entity (specification SpecDelete)             *)

DeleteEntityStep == last'.op = "delete_user_entity"

\* C34 as stated: after any call of delete_user_entity the key is absent
\* from the cache and is not a member of the owner's timeline, and the
\* entries and references of the other keys are unchanged.
C34_DeleteRemovesBoth ==
    [][DeleteEntityStep
        => /\ store'[last'.key] = Absent
           /\ last'.key \notin OwnerMembers(sets')
           /\ \A k \in Keys \ {last'.key} : store'[k] = store[k]
           /\ OwnerMembers(sets') \ {last'.key} = OwnerMembers(sets) \ {last'.key}]_vars

\* C34: delete_user_entity runs the delete of the entry and the srem of the
\* reference independently, whether or not there was an entry: the key is
\* absent from the cache unless the delete failed, and is not a member of
\* the owner's timeline unless the srem failed; with both served, both are
\* gone, also when the entry had expired before the call.  The entries and
\* references of the other keys are unchanged in every case.
C34_DeleteRemovesWhatIsServed ==
    [][DeleteEntityStep
        => /\ \E fm \in FailModes(2) :
                /\ fm.at = last'.fault
                /\ store'[last'.key] = IF Fails(fm, 1) THEN store[last'.key] ELSE Absent
                /\ (last'.key \in OwnerMembers(sets')) = (last'.key \in OwnerMembers(sets) /\ Fails(fm, 2))
                /\ last'.ok = (~Fails(fm, 1) /\ store[last'.key] # Absent)
           /\ \A k \in Keys \ {last'.key} : store'[k] = store[k]
           /\ OwnerMembers(sets') \ {last'.key} = OwnerMembers(sets) \ {last'.key}]_vars

\* delete_user_entity served on a key whose entry had expired while its
\* reference was still in the timeline: the reference is removed
C34_Witness ==
    /\ last.op = "delete_user_entity" /\ last.fault = 0 /\ ~last.ok
    /\ last.key = KA /\ KA \notin OwnerMembers(sets) /\ KB \in OwnerMembers(sets)
    /\ store[KA] = Absent /\ store[KB] = Absent

----------------------------------------------------------------------------
(* Properties of invalidate and delete (specification SpecInvalidate)      *)

\* C35: Repository.invalidate(K) and the store's delete(K) change at most
\* the entry of K: every other entry, and the members and the TTL of every
\* timeline, those that reference K included, are as before the call.
C35_NoEagerPrune ==
    [][last'.op \in {"invalidate", "cache.delete"}
        => /\ sets' = sets
           /\ \A k \in Keys \ {last'.key} : store'[k] = store[k]
           /\ last'.fault = 0 => store'[last'.key] = Absent]_vars

\* an invalidate that removed the entry of a key the timeline references;
\* the reference is still there
C35_Witness ==
    /\ last.op = "invalidate" /\ last.ok /\ last.key = KA
    /\ store[KA] = Absent /\ KA \in OwnerMembers(sets)
    /\ store[KI] # Absent

----------------------------------------------------------------------------
(* Properties of get_all_user_entities (specification SpecEntities)        *)

\* the members of the owner's timeline whose key carries an entity id
MembersWithId(ss) == {k \in OwnerMembers(ss) : _parse_key(k).entity_id # ""}

\* C36: get_all_user_entities returns one entry for every member of the
\* owner's timeline whose key carries an entity id: the result has as many
\* entries as there are such members, also when two members of different
\* shops carry the same entity id.
C36_OneEntryPerMember ==
    [][last'.op = "get_all_user_entities"
        => Cardinality(DOMAIN last'.values) = Cardinality(MembersWithId(sets))]_vars

====
